---- MODULE Spec2Model ----
(***************************************************************************)
(* Model of the workflow orchestrator core: WorkflowOrchestrator,          *)
(* WorkflowContext, ErrorHandler and the Step base class.                  *)
(*                                                                         *)
(* One action is one uninterrupted stretch of the code between two awaits  *)
(* of an external event (a step's execute, a backoff delay) or between     *)
(* the return of executeStep and the resumption of the loop of execute.    *)
(***************************************************************************)
EXTENDS Integers, Sequences, FiniteSets, TLC

\* ------------------------------------------------------------------ bounds
\* Longest pipeline that is built.
MaxSteps == 3
\* Longest sequence of direct calls of context and step methods.
MaxCalls == 3
\* Largest maxRetries of the runs that follow the backoff schedule.
MaxAttempts == 3
\* Largest configured maxRetries.
MaxRetriesBound == 2

\* ------------------------------------------------------- program constants
\* validateWorkflow: "Workflow must have at least 3 steps".
MinSteps == 3

\* Names of the steps, in the order in which they are added.
StepNames == <<"s1", "s2", "s3", "s4", "s5", "s6">>
\* Result returned by the k-th invocation of a step's execute.
Results == <<"r1", "r2", "r3", "r4", "r5", "r6">>

\* null / undefined, and a present value.
Null == << >>
Some(v) == <<v>>
IsSet(x) == x /= Null
Val(x) == x[1]

\* ------------------------------------------------------------------ errors
\* An error value: its class, its step field (typed errors only), its
\* retryable flag (ExecutionError only), the classification keywords its
\* message contains, and what the message says.
MkError(cls, step, retryable, kw, text) ==
    [cls |-> cls, step |-> step, retryable |-> retryable, kw |-> kw, text |-> text]

\* new WorkflowError(message, step)
WorkflowError(text, kw, step) == MkError("WorkflowError", step, FALSE, kw, text)

\* The errors the execute of the step called name may reject with.
StepErrors(name) ==
    { MkError("Error", "", FALSE, {}, "failed"),
      MkError("Error", "", FALSE, {"validation"}, "failed"),
      MkError("Error", "", FALSE, {"network"}, "failed"),
      MkError("ExecutionError", name, TRUE, {}, "failed"),
      MkError("WorkflowError", name, FALSE, {"timeout"}, "failed") }

\* ----------------------------------------------------------- configuration
RetryStrategies == {"exponential", "linear", "fixed"}

\* StepConfig.dependencies, as declared for the whole pipeline: every step
\* names the step before it, or every step names the step after it.
DependencyShapes == {"predecessor", "successor"}

\* The indices of the steps the step at index i of n is declared to depend on.
Dependencies(shape, i, n) ==
    IF shape = "predecessor" THEN {i - 1} \cap (1..n) ELSE {i + 1} \cap (1..n)

\* errorHandling, and the dependencies declared in WorkflowConfig.steps.
Configs ==
    [maxRetries : 0..MaxRetriesBound,
     retryStrategy : RetryStrategies,
     fallbackEnabled : BOOLEAN,
     dependencies : DependencyShapes,
     sourceType : {"mock"}]

\* config.source.type of the DataInput step: a supported type, or one that
\* no case of loadData names.
SourceTypes == {"mock", "invalid-type"}

\* DataInputStep.loadData: the loader the switch selects for a source type.
loadData(sourceType) ==
    IF sourceType \in {"file", "api", "provided"} THEN sourceType ELSE "mock"

\* ------------------------------------------------------------------- state
VARIABLES
    config,       \* WorkflowConfig: errorHandling, declared dependencies
    steps,        \* WorkflowOrchestrator.steps: the Step objects, in order
    data,         \* context.data
    metadata,     \* context.metadata
    stepOutputs,  \* context.stepOutputs, in insertion order
    errors,       \* context.errors
    pc,           \* where the call of execute() stands
    cur,          \* index of the step the loop of execute() is at
    retryCount,   \* executeRetry: retryCount
    wait,         \* the backoff delay being awaited
    invocations,  \* per step, how often its execute has been invoked
    succeededOnRetry, \* per step, the n of the log line "succeeded on retry n"
    inflight,     \* steps whose execute has been invoked and not resolved
    thrown,       \* the error execute() rejected with
    report,       \* the report execute() returned
    now,          \* the clock read by new Date()
    call,         \* the last direct call of a context or step method
    runs,         \* the orchestrators that execute concurrently, by request
    contexts      \* the WorkflowContext objects those orchestrators created

vars == <<config, steps, data, metadata, stepOutputs, errors, pc, cur,
          retryCount, wait, invocations, succeededOnRetry, inflight, thrown,
          report, now, call, runs, contexts>>

\* ------------------------------------------------------------ Map helpers
\* A Map whose iteration order is observed: a sequence of [key, value].
MapHas(m, k) == \E i \in 1..Len(m) : m[i].key = k
MapIndex(m, k) == CHOOSE i \in 1..Len(m) : m[i].key = k
MapGet(m, k) == m[MapIndex(m, k)].value
\* Map.prototype.set: an existing key keeps its position.
MapSet(m, k, v) ==
    IF MapHas(m, k)
    THEN [m EXCEPT ![MapIndex(m, k)] = [key |-> k, value |-> v]]
    ELSE Append(m, [key |-> k, value |-> v])

\* A Map whose order is not observed: a function on its keys.
EmptyData == [k \in {} |-> ""]
DataSet(d, k, v) == [x \in DOMAIN d \cup {k} |-> IF x = k THEN v ELSE d[x]]

\* ---------------------------------------------------------- WorkflowContext
NewMetadata(totalSteps) ==
    [startTime |-> Null, endTime |-> Null, totalSteps |-> totalSteps,
     completedSteps |-> 0, failedSteps |-> 0]

\* A setData that keeps the value a key already has.
setDataKeepsFirst(d, key, value) ==
    IF key \in DOMAIN d THEN d ELSE DataSet(d, key, value)

\* setData(key, value)
setData(d, key, value) == DataSet(d, key, value)

\* getData(key): undefined when the key was never set.
getData(d, key) == IF key \in DOMAIN d THEN Some(d[key]) ELSE Null

\* A setStepOutput that always writes a fresh COMPLETED record.
setStepOutputFresh(m, stepName, output, t) ==
    MapSet(m, stepName,
           [status |-> "COMPLETED", startTime |-> Some(t), endTime |-> Some(t),
            output |-> Some(output), error |-> Null, duration |-> 0])

\* setStepOutput(stepName, output) at time t
setStepOutput(m, stepName, output, t) ==
    IF MapHas(m, stepName)
    THEN MapSet(m, stepName, [MapGet(m, stepName) EXCEPT !.output = Some(output)])
    ELSE MapSet(m, stepName,
                [status |-> "COMPLETED", startTime |-> Some(t), endTime |-> Some(t),
                 output |-> Some(output), error |-> Null, duration |-> 0])

\* A getStepOutput that falls back on the first record of the map.
getStepOutputOrFirst(m, stepName) ==
    IF MapHas(m, stepName) THEN Some(MapGet(m, stepName))
    ELSE IF m /= << >> THEN Some(m[1].value) ELSE Null

\* getStepOutput(stepName)
getStepOutput(m, stepName) == IF MapHas(m, stepName) THEN Some(MapGet(m, stepName)) ELSE Null

\* --------------------------------------------------------------------- Step
\* A step that is constructed RUNNING.
NewStepRunning(name) ==
    [name |-> name, status |-> "RUNNING", startTime |-> Null, endTime |-> Null,
     error |-> Null, output |-> Null, duration |-> 0]

\* new Step(name, config)
NewStep(name) ==
    [name |-> name, status |-> "PENDING", startTime |-> Null, endTime |-> Null,
     error |-> Null, output |-> Null, duration |-> 0]

\* A handleError that records the error but leaves the status alone.
StepAfterErrorKeepsStatus(s, e, t) ==
    [s EXCEPT !.error = Some(e), !.endTime = Some(t)]

\* Step.handleError, the part on the step itself
StepAfterError(s, e, t) ==
    [s EXCEPT !.error = Some(e), !.status = "FAILED", !.endTime = Some(t)]

\* A handleError that counts the failure twice.
MetadataAfterErrorTwice(md) == [md EXCEPT !.failedSteps = @ + 2]

\* Step.handleError, the part on context.metadata
MetadataAfterError(md) == [md EXCEPT !.failedSteps = @ + 1]

\* A handleError that forgets the error, and one that puts it first.
ErrorsAfterErrorDropped(errs, e) == errs

\* Step.handleError, the part on context.errors
ErrorsAfterError(errs, e) == Append(errs, e)

\* What a successful execute of a concrete step does to the context before it
\* returns its result: setData(<key>, result), setStepOutput(name, result).
StepWritesData(d, name, result) == setData(d, name, result)
StepWritesOutput(m, name, result, t) == setStepOutput(m, name, result, t)

\* ------------------------------------------------------------- ErrorHandler
\* A classification that looks for "network" before "timeout".
classifyErrorNetworkFirst(e) ==
    IF e.cls = "ExecutionError"
    THEN [type |-> "EXECUTION", severity |-> "MEDIUM", retryable |-> e.retryable,
          step |-> e.step]
    ELSE IF "validation" \in e.kw
    THEN [type |-> "VALIDATION", severity |-> "HIGH", retryable |-> FALSE,
          step |-> "VALIDATION"]
    ELSE IF "network" \in e.kw
    THEN [type |-> "NETWORK", severity |-> "MEDIUM", retryable |-> TRUE,
          step |-> "NETWORK"]
    ELSE IF "timeout" \in e.kw
    THEN [type |-> "TIMEOUT", severity |-> "MEDIUM", retryable |-> TRUE,
          step |-> "TIMEOUT"]
    ELSE [type |-> "UNKNOWN", severity |-> "HIGH", retryable |-> FALSE,
          step |-> "UNKNOWN"]

\* classifyError
classifyError(e) ==
    IF e.cls = "ExecutionError"
    THEN [type |-> "EXECUTION", severity |-> "MEDIUM", retryable |-> e.retryable,
          step |-> e.step]
    ELSE IF "validation" \in e.kw
    THEN [type |-> "VALIDATION", severity |-> "HIGH", retryable |-> FALSE,
          step |-> "VALIDATION"]
    ELSE IF "timeout" \in e.kw
    THEN [type |-> "TIMEOUT", severity |-> "MEDIUM", retryable |-> TRUE,
          step |-> "TIMEOUT"]
    ELSE IF "network" \in e.kw
    THEN [type |-> "NETWORK", severity |-> "MEDIUM", retryable |-> TRUE,
          step |-> "NETWORK"]
    ELSE [type |-> "UNKNOWN", severity |-> "HIGH", retryable |-> FALSE,
          step |-> "UNKNOWN"]

\* A shouldRetry that forgets to look at maxRetries.
shouldRetryIgnoresMaxRetries(info, cfg) ==
    info.retryable /\ info.severity /= "HIGH"

\* shouldRetry
shouldRetry(info, cfg) ==
    info.retryable /\ info.severity /= "HIGH" /\ cfg.maxRetries > 0

\* A fallback that marks the step whatever the error type is.
executeFallbackMarksAll(d, info, name) == DataSet(d, name \o "_fallback", "true")

\* executeFallback: its effect on context.data
executeFallback(d, info, name) ==
    IF info.type = "VALIDATION" THEN DataSet(d, name \o "_fallback", "true")
    ELSE IF info.type = "NETWORK" THEN DataSet(d, name \o "_fallback", "cached")
    ELSE d

\* 2^k
RECURSIVE Pow2(_)
Pow2(k) == IF k = 0 THEN 1 ELSE 2 * Pow2(k - 1)

\* A schedule whose exponential strategy grows like the linear one.
DelayAllLinear(strategy, k) ==
    IF strategy = "fixed" THEN 2000 ELSE (k + 1) * 1000

\* getRetryStrategy().delay(retryCount), in milliseconds
Delay(strategy, k) ==
    IF strategy = "exponential" THEN Pow2(k) * 1000
    ELSE IF strategy = "linear" THEN (k + 1) * 1000
    ELSE IF strategy = "fixed" THEN 2000
    ELSE Pow2(k) * 1000

\* ------------------------------------------------------ WorkflowOrchestrator
\* The record executeStep builds for a step that starts at time t.
RunningRecord(t) ==
    [status |-> "RUNNING", startTime |-> Some(t), endTime |-> Null,
     output |-> Null, error |-> Null, duration |-> 0]

\* The error the catch block of execute() rethrows.
RethrownAsIs(e) == e

Rethrown(e) ==
    IF e.cls = "WorkflowError" THEN e
    ELSE WorkflowError("Unexpected workflow error", e.kw, "WORKFLOW")

\* A success rate that is left as a ratio, not a percentage.
SuccessRateUnscaled(md) == [num |-> md.completedSteps, den |-> md.totalSteps]

\* successRate = completedSteps / totalSteps * 100, kept as a fraction
\* num / den so that no rounding is modelled.
SuccessRate(md) == [num |-> md.completedSteps * 100, den |-> md.totalSteps]

StepSummary(entry) ==
    [name |-> entry.key,
     status |-> IF entry.value.status = "COMPLETED" THEN "COMPLETED" ELSE "FAILED",
     startTime |-> entry.value.startTime,
     endTime |-> entry.value.endTime,
     duration |-> entry.value.duration,
     error |-> entry.value.error]

ErrorSummary(e) == [step |-> "UNKNOWN", message |-> e.text, type |-> e.cls]

\* A report status that looks at the completed steps instead.
ReportStatusFromCompleted(md) ==
    IF md.completedSteps > 0 THEN "COMPLETED" ELSE "FAILED"

\* generateExecutionReport: the overall status
ReportStatus(md) == IF md.failedSteps = 0 THEN "COMPLETED" ELSE "FAILED"

\* A report that counts every step that has an output as completed.
generateExecutionReportFromOutputs(md, outs, errs) ==
    LET done == Cardinality({i \in 1..Len(outs) : IsSet(outs[i].value.output)})
        counted == [md EXCEPT !.completedSteps = done,
                              !.failedSteps = md.totalSteps - done]
    IN [status |-> ReportStatus(counted),
        startTime |-> md.startTime,
        endTime |-> md.endTime,
        duration |-> Val(md.endTime) - Val(md.startTime),
        steps |-> [i \in 1..Len(outs) |-> StepSummary(outs[i])],
        summary |-> [totalSteps |-> md.totalSteps,
                     completedSteps |-> counted.completedSteps,
                     failedSteps |-> counted.failedSteps,
                     successRate |-> SuccessRate(counted)],
        errors |-> [i \in 1..Len(errs) |-> ErrorSummary(errs[i])]]

\* generateExecutionReport
generateExecutionReport(md, outs, errs) ==
    [status |-> ReportStatus(md),
     startTime |-> md.startTime,
     endTime |-> md.endTime,
     duration |-> Val(md.endTime) - Val(md.startTime),
     steps |-> [i \in 1..Len(outs) |-> StepSummary(outs[i])],
     summary |-> [totalSteps |-> md.totalSteps,
                  completedSteps |-> md.completedSteps,
                  failedSteps |-> md.failedSteps,
                  successRate |-> SuccessRate(md)],
     errors |-> [i \in 1..Len(errs) |-> ErrorSummary(errs[i])]]

\* A validation that only rejects the empty pipeline.
validateWorkflowOnlyEmpty(n) ==
    IF n = 0
    THEN Some(WorkflowError("No steps configured for workflow", {}, "WORKFLOW"))
    ELSE Null

\* validateWorkflow: the error it throws for a pipeline of n steps, if any.
validateWorkflow(n) ==
    IF n = 0
    THEN Some(WorkflowError("No steps configured for workflow", {}, "WORKFLOW"))
    ELSE IF n < MinSteps
    THEN Some(WorkflowError("Workflow must have at least 3 steps", {}, "WORKFLOW"))
    ELSE Null

\* A loop that never aborts, and one that aborts whatever fallbackEnabled is.
ShouldAbortNever(s, cfg) == FALSE
ShouldAbortOnAnyFailure(s, cfg) == s.status = "FAILED"

\* execute(): the check made after each step, which ends the run.
ShouldAbort(s, cfg) == s.status = "FAILED" /\ ~cfg.fallbackEnabled

\* A loop that skips every other step.
NextIndexSkips(i) == i + 2

\* The step the loop of execute() takes after the step at index i.
NextIndex(i) == i + 1

\* -------------------------------------------------------------------- Init
Init ==
    /\ config \in Configs
    /\ steps = << >>
    /\ data = EmptyData
    /\ metadata = NewMetadata(0)
    /\ stepOutputs = << >>
    /\ errors = << >>
    /\ pc = "NOT_STARTED"
    /\ cur = 0
    /\ retryCount = 0
    /\ wait = Null
    /\ invocations = << >>
    /\ succeededOnRetry = << >>
    /\ inflight = {}
    /\ thrown = Null
    /\ report = Null
    /\ now = 0
    /\ call = Null
    /\ runs = << >>
    /\ contexts = << >>

\* An addStep that leaves totalSteps as the constructor set it.
AddStepKeepsTotal ==
    /\ pc = "NOT_STARTED"
    /\ Len(steps) < MaxSteps
    /\ steps' = Append(steps, NewStep(StepNames[Len(steps) + 1]))
    /\ metadata' = metadata
    /\ invocations' = Append(invocations, 0)
    /\ succeededOnRetry' = Append(succeededOnRetry, 0)
    /\ UNCHANGED <<call, runs, contexts>>
    /\ UNCHANGED <<config, data, stepOutputs, errors, pc, cur, retryCount, wait,
                   inflight, thrown, report, now>>

\* ----------------------------------------------------------------- actions
\* addStep(step), before the run. Step names are unique within a run (the
\* data model of the steps): the step added at position n is named StepNames[n].
AddStep ==
    /\ pc = "NOT_STARTED"
    /\ Len(steps) < MaxSteps
    /\ steps' = Append(steps, NewStep(StepNames[Len(steps) + 1]))
    /\ metadata' = [metadata EXCEPT !.totalSteps = Len(steps')]
    /\ invocations' = Append(invocations, 0)
    /\ succeededOnRetry' = Append(succeededOnRetry, 0)
    /\ UNCHANGED <<call, runs, contexts>>
    /\ UNCHANGED <<config, data, stepOutputs, errors, pc, cur, retryCount, wait,
                   inflight, thrown, report, now>>

\* An execute() that starts the first step without validating.
ExecuteWithoutValidation ==
    /\ pc = "NOT_STARTED"
    /\ Len(steps) > 0
    /\ metadata' = [metadata EXCEPT !.startTime = Some(now)]
    /\ cur' = 1
    /\ steps' = [steps EXCEPT ![1].status = "RUNNING", ![1].startTime = Some(now)]
    /\ stepOutputs' = MapSet(stepOutputs, steps[1].name, RunningRecord(now))
    /\ invocations' = [invocations EXCEPT ![1] = @ + 1]
    /\ inflight' = inflight \cup {1}
    /\ pc' = "EXECUTING"
    /\ now' = now + 1
    /\ UNCHANGED <<call, runs, contexts>>
    /\ UNCHANGED <<config, data, errors, retryCount, wait, succeededOnRetry, thrown,
                   report>>

\* execute(), up to await this.validateWorkflow()
Execute ==
    /\ pc = "NOT_STARTED"
    /\ metadata' = [metadata EXCEPT !.startTime = Some(now)]
    /\ pc' = "VALIDATING"
    /\ now' = now + 1
    /\ UNCHANGED <<call, runs, contexts>>
    /\ UNCHANGED <<config, steps, data, stepOutputs, errors, cur, retryCount, wait,
                   invocations, succeededOnRetry, inflight, thrown, report>>

\* The catch block of execute(): endTime is set and e is rethrown or wrapped.
\* md is the metadata as the run left it.
Abort(e, md) ==
    /\ metadata' = [md EXCEPT !.endTime = Some(now)]
    /\ thrown' = Some(Rethrown(e))
    /\ pc' = "ABORTED"

\* executeStep(step), up to await step.execute(this.context)
BeginStep(i) ==
    /\ cur' = i
    /\ steps' = [steps EXCEPT ![i].status = "RUNNING", ![i].startTime = Some(now)]
    /\ stepOutputs' = MapSet(stepOutputs, steps[i].name, RunningRecord(now))
    /\ invocations' = [invocations EXCEPT ![i] = @ + 1]
    /\ inflight' = inflight \cup {i}
    /\ pc' = "EXECUTING"

\* validateWorkflow() fails: fewer than 3 steps
ValidateFails ==
    /\ pc = "VALIDATING"
    /\ IsSet(validateWorkflow(Len(steps)))
    /\ Abort(Val(validateWorkflow(Len(steps))), metadata)
    /\ now' = now + 1
    /\ UNCHANGED <<call, runs, contexts>>
    /\ UNCHANGED <<config, steps, data, stepOutputs, errors, cur, retryCount, wait,
                   invocations, succeededOnRetry, inflight, report>>

\* validateWorkflow() passes and the loop starts the first step
ValidatePasses ==
    /\ pc = "VALIDATING"
    /\ ~IsSet(validateWorkflow(Len(steps)))
    /\ BeginStep(1)
    /\ now' = now + 1
    /\ UNCHANGED <<call, runs, contexts>>
    /\ UNCHANGED <<config, data, metadata, errors, retryCount, wait, succeededOnRetry,
                   thrown, report>>

\* step.execute resolves: the try branch of executeStep
StepSucceeds ==
    /\ pc = "EXECUTING"
    /\ LET s == steps[cur]
           result == Results[invocations[cur]]
           done == [s EXCEPT !.status = "COMPLETED", !.endTime = Some(now),
                             !.output = Some(result),
                             !.duration = now - Val(s.startTime)]
           rec == [RunningRecord(Val(s.startTime)) EXCEPT
                       !.status = "COMPLETED", !.endTime = done.endTime,
                       !.output = Some(result), !.duration = done.duration]
       IN /\ steps' = [steps EXCEPT ![cur] = done]
          /\ data' = StepWritesData(data, s.name, result)
          /\ stepOutputs' = MapSet(StepWritesOutput(stepOutputs, s.name, result, now),
                                   s.name, rec)
          /\ metadata' = [metadata EXCEPT !.completedSteps = @ + 1]
    /\ inflight' = inflight \ {cur}
    /\ pc' = "STEP_DONE"
    /\ now' = now + 1
    /\ UNCHANGED <<call, runs, contexts>>
    /\ UNCHANGED <<config, errors, cur, retryCount, wait, invocations, succeededOnRetry,
                   thrown, report>>

\* A failure whose error is put in front of context.errors.
StepFailsNewestFirst ==
    /\ pc = "EXECUTING"
    /\ \E e \in StepErrors(steps[cur].name) :
        LET s == steps[cur]
            failed == StepAfterError(s, e, now)
            rec == [RunningRecord(Val(s.startTime)) EXCEPT
                        !.status = "FAILED", !.endTime = failed.endTime,
                        !.error = failed.error,
                        !.duration = now - Val(s.startTime)]
            info == classifyError(e)
        IN /\ steps' = [steps EXCEPT ![cur] = failed]
           /\ errors' = <<e>> \o errors
           /\ metadata' = MetadataAfterError(metadata)
           /\ stepOutputs' = MapSet(stepOutputs, s.name, rec)
           /\ IF shouldRetry(info, config)
              THEN /\ retryCount' = 0
                   /\ wait' = Some([k |-> 0, ms |-> Delay(config.retryStrategy, 0)])
                   /\ pc' = "BACKOFF"
                   /\ data' = data
              ELSE /\ data' = executeFallback(data, info, s.name)
                   /\ pc' = "STEP_DONE"
                   /\ UNCHANGED <<retryCount, wait>>
    /\ inflight' = inflight \ {cur}
    /\ now' = now + 1
    /\ UNCHANGED <<call, runs, contexts>>
    /\ UNCHANGED <<config, cur, invocations, succeededOnRetry, thrown, report>>

\* step.execute rejects with e: the catch branch of executeStep, then
\* ErrorHandler.handleError up to its first await or to its return
StepFails ==
    /\ pc = "EXECUTING"
    /\ \E e \in StepErrors(steps[cur].name) :
        LET s == steps[cur]
            failed == StepAfterError(s, e, now)
            rec == [RunningRecord(Val(s.startTime)) EXCEPT
                        !.status = "FAILED", !.endTime = failed.endTime,
                        !.error = failed.error,
                        !.duration = now - Val(s.startTime)]
            info == classifyError(e)
        IN /\ steps' = [steps EXCEPT ![cur] = failed]
           /\ errors' = ErrorsAfterError(errors, e)
           /\ metadata' = MetadataAfterError(metadata)
           /\ stepOutputs' = MapSet(stepOutputs, s.name, rec)
           /\ IF shouldRetry(info, config)
              THEN /\ retryCount' = 0
                   /\ wait' = Some([k |-> 0, ms |-> Delay(config.retryStrategy, 0)])
                   /\ pc' = "BACKOFF"
                   /\ data' = data
              ELSE /\ data' = executeFallback(data, info, s.name)
                   /\ pc' = "STEP_DONE"
                   /\ UNCHANGED <<retryCount, wait>>
    /\ inflight' = inflight \ {cur}
    /\ now' = now + 1
    /\ UNCHANGED <<call, runs, contexts>>
    /\ UNCHANGED <<config, cur, invocations, succeededOnRetry, thrown, report>>

\* A retry that invokes step.execute twice after one delay.
BackoffElapsesInvokesTwice ==
    /\ pc = "BACKOFF"
    /\ wait' = Null
    /\ invocations' = [invocations EXCEPT ![cur] = @ + 2]
    /\ inflight' = inflight \cup {cur}
    /\ pc' = "RETRYING"
    /\ now' = now + 1
    /\ UNCHANGED <<call, runs, contexts>>
    /\ UNCHANGED <<config, steps, data, metadata, stepOutputs, errors, cur,
                   retryCount, succeededOnRetry, thrown, report>>

\* executeRetry: strategy.delay resolves and step.execute is invoked again
BackoffElapses ==
    /\ pc = "BACKOFF"
    /\ wait' = Null
    /\ invocations' = [invocations EXCEPT ![cur] = @ + 1]
    /\ inflight' = inflight \cup {cur}
    /\ pc' = "RETRYING"
    /\ now' = now + 1
    /\ UNCHANGED <<call, runs, contexts>>
    /\ UNCHANGED <<config, steps, data, metadata, stepOutputs, errors, cur,
                   retryCount, succeededOnRetry, thrown, report>>

\* A retry whose success is booked like a first success.
RetrySucceedsBooked ==
    /\ pc = "RETRYING"
    /\ LET name == steps[cur].name
           result == Results[invocations[cur]]
       IN /\ data' = StepWritesData(data, name, result)
          /\ stepOutputs' = StepWritesOutput(stepOutputs, name, result, now)
          /\ steps' = [steps EXCEPT ![cur].status = "COMPLETED",
                                    ![cur].output = Some(result)]
          /\ metadata' = [metadata EXCEPT !.completedSteps = @ + 1]
    /\ succeededOnRetry' = [succeededOnRetry EXCEPT ![cur] = retryCount + 1]
    /\ inflight' = inflight \ {cur}
    /\ pc' = "STEP_DONE"
    /\ now' = now + 1
    /\ UNCHANGED <<call, runs, contexts>>
    /\ UNCHANGED <<config, errors, cur, retryCount, wait, invocations, thrown, report>>

\* executeRetry: the retried step.execute resolves
RetrySucceeds ==
    /\ pc = "RETRYING"
    /\ LET name == steps[cur].name
           result == Results[invocations[cur]]
       IN /\ data' = StepWritesData(data, name, result)
          /\ stepOutputs' = StepWritesOutput(stepOutputs, name, result, now)
    /\ succeededOnRetry' = [succeededOnRetry EXCEPT ![cur] = retryCount + 1]
    /\ inflight' = inflight \ {cur}
    /\ pc' = "STEP_DONE"
    /\ now' = now + 1
    /\ UNCHANGED <<call, runs, contexts>>
    /\ UNCHANGED <<config, steps, metadata, errors, cur, retryCount, wait,
                   invocations, thrown, report>>

\* A retry loop that allows one attempt more than maxRetries.
RetryFailsOneMore ==
    /\ pc = "RETRYING"
    /\ \E e \in StepErrors(steps[cur].name) :
        /\ retryCount' = retryCount + 1
        /\ IF retryCount + 1 > config.maxRetries
           THEN /\ Abort(e, metadata)
                /\ wait' = wait
           ELSE /\ wait' = Some([k |-> retryCount + 1,
                                 ms |-> Delay(config.retryStrategy, retryCount + 1)])
                /\ pc' = "BACKOFF"
                /\ UNCHANGED <<metadata, thrown>>
    /\ inflight' = inflight \ {cur}
    /\ now' = now + 1
    /\ UNCHANGED <<call, runs, contexts>>
    /\ UNCHANGED <<config, steps, data, stepOutputs, errors, cur, invocations,
                   succeededOnRetry, report>>

\* executeRetry: the retried step.execute rejects with e
RetryFails ==
    /\ pc = "RETRYING"
    /\ \E e \in StepErrors(steps[cur].name) :
        /\ retryCount' = retryCount + 1
        /\ IF retryCount + 1 >= config.maxRetries
           THEN /\ Abort(e, metadata)
                /\ wait' = wait
           ELSE /\ wait' = Some([k |-> retryCount + 1,
                                 ms |-> Delay(config.retryStrategy, retryCount + 1)])
                /\ pc' = "BACKOFF"
                /\ UNCHANGED <<metadata, thrown>>
    /\ inflight' = inflight \ {cur}
    /\ now' = now + 1
    /\ UNCHANGED <<call, runs, contexts>>
    /\ UNCHANGED <<config, steps, data, stepOutputs, errors, cur, invocations,
                   succeededOnRetry, report>>

\* An abort that waits for the failed step to be COMPLETED.
LoopAbortsWaits ==
    /\ pc = "STEP_DONE"
    /\ ShouldAbort(steps[cur], config)
    /\ steps[cur].status = "COMPLETED"
    /\ Abort(WorkflowError("Workflow failed at step", {}, steps[cur].name), metadata)
    /\ now' = now + 1
    /\ UNCHANGED <<call, runs, contexts>>
    /\ UNCHANGED <<config, steps, data, stepOutputs, errors, cur, retryCount, wait,
                   invocations, succeededOnRetry, inflight, report>>

\* execute(): the loop resumes after await this.executeStep(step)
LoopAborts ==
    /\ pc = "STEP_DONE"
    /\ ShouldAbort(steps[cur], config)
    /\ Abort(WorkflowError("Workflow failed at step", {}, steps[cur].name), metadata)
    /\ now' = now + 1
    /\ UNCHANGED <<call, runs, contexts>>
    /\ UNCHANGED <<config, steps, data, stepOutputs, errors, cur, retryCount, wait,
                   invocations, succeededOnRetry, inflight, report>>

\* A loop that stamps endTime after every step.
LoopContinuesStampsEnd ==
    /\ pc = "STEP_DONE"
    /\ ~ShouldAbort(steps[cur], config)
    /\ NextIndex(cur) \in 1..Len(steps)
    /\ BeginStep(NextIndex(cur))
    /\ metadata' = [metadata EXCEPT !.endTime = Some(now)]
    /\ now' = now + 1
    /\ UNCHANGED <<call, runs, contexts>>
    /\ UNCHANGED <<config, data, errors, retryCount, wait, succeededOnRetry,
                   thrown, report>>

\* execute(): the loop goes on to the next step
LoopContinues ==
    /\ pc = "STEP_DONE"
    /\ ~ShouldAbort(steps[cur], config)
    /\ NextIndex(cur) \in 1..Len(steps)
    /\ BeginStep(NextIndex(cur))
    /\ now' = now + 1
    /\ UNCHANGED <<call, runs, contexts>>
    /\ UNCHANGED <<config, data, metadata, errors, retryCount, wait, succeededOnRetry,
                   thrown, report>>

\* A loop that gives up on a step that is still executing.
LoopEndsOnTimeout ==
    /\ pc \in {"STEP_DONE", "EXECUTING"}
    /\ ~ShouldAbort(steps[cur], config)
    /\ NextIndex(cur) \notin 1..Len(steps)
    /\ metadata' = [metadata EXCEPT !.endTime = Some(now)]
    /\ report' = Some(generateExecutionReport(metadata', stepOutputs, errors))
    /\ pc' = "COMPLETED"
    /\ now' = now + 1
    /\ UNCHANGED <<call, runs, contexts>>
    /\ UNCHANGED <<config, steps, data, stepOutputs, errors, cur, retryCount, wait,
                   invocations, succeededOnRetry, inflight, thrown>>

\* execute(): the loop is over and the report is returned
LoopEnds ==
    /\ pc = "STEP_DONE"
    /\ ~ShouldAbort(steps[cur], config)
    /\ NextIndex(cur) \notin 1..Len(steps)
    /\ metadata' = [metadata EXCEPT !.endTime = Some(now)]
    /\ report' = Some(generateExecutionReport(metadata', stepOutputs, errors))
    /\ pc' = "COMPLETED"
    /\ now' = now + 1
    /\ UNCHANGED <<call, runs, contexts>>
    /\ UNCHANGED <<config, steps, data, stepOutputs, errors, cur, retryCount, wait,
                   invocations, succeededOnRetry, inflight, thrown>>

Next ==
    \/ AddStep
    \/ Execute
    \/ ValidateFails
    \/ ValidatePasses
    \/ StepSucceeds
    \/ StepFails
    \/ BackoffElapses
    \/ RetrySucceeds
    \/ RetryFails
    \/ LoopAborts
    \/ LoopContinues
    \/ LoopEnds

Spec == Init /\ [][Next]_vars

\* What the event loop runs by itself once execute() has been called: the
\* continuations of the awaits of execute(), executeStep and executeRetry.
\* Every invocation of step.execute and every backoff timer resolves.
Progress ==
    \/ ValidateFails
    \/ ValidatePasses
    \/ StepSucceeds
    \/ StepFails
    \/ BackoffElapses
    \/ RetrySucceeds
    \/ RetryFails
    \/ LoopAborts
    \/ LoopContinues
    \/ LoopEnds

\* errorHandling of the runs that are followed to their end: the backoff
\* strategy and the declared dependencies do not change what can happen next.
LiveConfigs ==
    [maxRetries : 0..MaxRetriesBound,
     retryStrategy : {"exponential"},
     fallbackEnabled : BOOLEAN,
     dependencies : {"predecessor"},
     sourceType : {"mock"}]

InitLive ==
    /\ config \in LiveConfigs
    /\ steps = << >>
    /\ data = EmptyData
    /\ metadata = NewMetadata(0)
    /\ stepOutputs = << >>
    /\ errors = << >>
    /\ pc = "NOT_STARTED"
    /\ cur = 0
    /\ retryCount = 0
    /\ wait = Null
    /\ invocations = << >>
    /\ succeededOnRetry = << >>
    /\ inflight = {}
    /\ thrown = Null
    /\ report = Null
    /\ now = 0
    /\ call = Null
    /\ runs = << >>
    /\ contexts = << >>

SpecLive == InitLive /\ [][Next]_vars /\ WF_vars(Progress)

\* ------------------------------------------- execute() called a second time
\* errorHandling of the orchestrators that are executed twice: one retry,
\* which is enough for every branch of the error handler to be taken.
RerunConfigs ==
    [maxRetries : {1},
     retryStrategy : {"fixed"},
     fallbackEnabled : BOOLEAN,
     dependencies : {"predecessor"},
     sourceType : {"mock"}]

InitRerun ==
    /\ config \in RerunConfigs
    /\ steps = << >>
    /\ data = EmptyData
    /\ metadata = NewMetadata(0)
    /\ stepOutputs = << >>
    /\ errors = << >>
    /\ pc = "NOT_STARTED"
    /\ cur = 0
    /\ retryCount = 0
    /\ wait = Null
    /\ invocations = << >>
    /\ succeededOnRetry = << >>
    /\ inflight = {}
    /\ thrown = Null
    /\ report = Null
    /\ now = 0
    /\ call = Null
    /\ runs = << >>
    /\ contexts = << >>

\* What the first call of execute() left behind when it settled.
FirstRun ==
    [op |-> "execute", outcome |-> pc, metadata |-> metadata, errors |-> errors,
     steps |-> steps, stepOutputs |-> stepOutputs, thrown |-> thrown,
     report |-> report]

\* A second execute() that starts from a fresh context.
ExecuteAgainFresh ==
    /\ pc \in {"COMPLETED", "ABORTED"}
    /\ call = Null
    /\ Len(steps) <= MinSteps
    /\ call' = Some(FirstRun)
    /\ metadata' = [NewMetadata(Len(steps)) EXCEPT !.startTime = Some(now)]
    /\ errors' = << >>
    /\ stepOutputs' = << >>
    /\ pc' = "VALIDATING"
    /\ cur' = 0
    /\ retryCount' = 0
    /\ wait' = Null
    /\ thrown' = Null
    /\ report' = Null
    /\ now' = now + 1
    /\ UNCHANGED <<runs, contexts>>
    /\ UNCHANGED <<config, steps, data, invocations, succeededOnRetry, inflight>>

\* execute() called again on the same orchestrator once the first call has
\* settled, up to await this.validateWorkflow(). Only metadata.startTime is
\* written; the loop variable, the retry counter and the promise's outcome
\* are those of the new call. The second call is followed for workflows of
\* at most MinSteps steps: the shortest that pass validation, and the
\* shorter ones, which do not.
ExecuteAgain ==
    /\ pc \in {"COMPLETED", "ABORTED"}
    /\ call = Null
    /\ Len(steps) <= MinSteps
    /\ call' = Some(FirstRun)
    /\ metadata' = [metadata EXCEPT !.startTime = Some(now)]
    /\ pc' = "VALIDATING"
    /\ cur' = 0
    /\ retryCount' = 0
    /\ wait' = Null
    /\ thrown' = Null
    /\ report' = Null
    /\ now' = now + 1
    /\ UNCHANGED <<runs, contexts>>
    /\ UNCHANGED <<config, steps, data, stepOutputs, errors, invocations,
                   succeededOnRetry, inflight>>

NextRerun ==
    \/ Next
    \/ ExecuteAgain

SpecRerun == InitRerun /\ [][NextRerun]_vars

\* ---------------------------------------------- runs with a deeper retry budget
\* errorHandling with maxRetries up to MaxAttempts.
DeepConfigs ==
    [maxRetries : 0..MaxAttempts,
     retryStrategy : RetryStrategies,
     fallbackEnabled : BOOLEAN,
     dependencies : {"predecessor"},
     sourceType : {"mock"}]

InitBackoff ==
    /\ config \in DeepConfigs
    /\ steps = << >>
    /\ data = EmptyData
    /\ metadata = NewMetadata(0)
    /\ stepOutputs = << >>
    /\ errors = << >>
    /\ pc = "NOT_STARTED"
    /\ cur = 0
    /\ retryCount = 0
    /\ wait = Null
    /\ invocations = << >>
    /\ succeededOnRetry = << >>
    /\ inflight = {}
    /\ thrown = Null
    /\ report = Null
    /\ now = 0
    /\ call = Null
    /\ runs = << >>
    /\ contexts = << >>

SpecBackoff == InitBackoff /\ [][Next]_vars

\* --------------------------------- runs whose first step has any source type
\* The first step is a DataInputStep built with config.source.type; whatever
\* the type, loadData selects a loader that can resolve.
SourceConfigs ==
    [maxRetries : {0, 1},
     retryStrategy : {"exponential"},
     fallbackEnabled : BOOLEAN,
     dependencies : {"predecessor"},
     sourceType : {t \in SourceTypes : loadData(t) = "mock"}]

InitSource ==
    /\ config \in SourceConfigs
    /\ steps = << >>
    /\ data = EmptyData
    /\ metadata = NewMetadata(0)
    /\ stepOutputs = << >>
    /\ errors = << >>
    /\ pc = "NOT_STARTED"
    /\ cur = 0
    /\ retryCount = 0
    /\ wait = Null
    /\ invocations = << >>
    /\ succeededOnRetry = << >>
    /\ inflight = {}
    /\ thrown = Null
    /\ report = Null
    /\ now = 0
    /\ call = Null
    /\ runs = << >>
    /\ contexts = << >>

SpecSource == InitSource /\ [][Next]_vars

\* ------------------------------------------- direct calls (the unit level)
\* The methods of WorkflowContext and Step.handleError called one by one on a
\* context and two steps, outside a run of execute().
DataKeys == {"k1", "k2"}
DataValues == {"v1", "v2"}
OutputNames == {"s1", "s2"}
CallErrors ==
    { MkError("Error", "", FALSE, {}, "Test error"),
      MkError("Error", "", FALSE, {"network"}, "Test error") }

\* A call: the method, its first argument (key or step name), its second
\* argument if any, and what it returned.
MkCall(op, key, value, result) ==
    [op |-> op, key |-> key, value |-> value, result |-> result]

\* The context is new, or the orchestrator has already set the record of s1
\* (RUNNING while s1 executes, FAILED once it has failed).
InitContext ==
    /\ config = [maxRetries |-> 0, retryStrategy |-> "exponential",
                 fallbackEnabled |-> TRUE, dependencies |-> "predecessor",
                 sourceType |-> "mock"]
    /\ steps = <<NewStep("s1"), NewStep("s2")>>
    /\ data = EmptyData
    /\ metadata = NewMetadata(2)
    /\ stepOutputs \in
          { << >>,
            MapSet(<< >>, "s1", RunningRecord(0)),
            MapSet(<< >>, "s1",
                   [RunningRecord(0) EXCEPT
                       !.status = "FAILED", !.endTime = Some(0),
                       !.error = Some(MkError("Error", "", FALSE, {}, "Test error"))]) }
    /\ errors = << >>
    /\ pc = "NOT_STARTED"
    /\ cur = 0
    /\ retryCount = 0
    /\ wait = Null
    /\ invocations = <<0, 0>>
    /\ succeededOnRetry = <<0, 0>>
    /\ inflight = {}
    /\ thrown = Null
    /\ report = Null
    /\ now = 0
    /\ call = Null
    /\ runs = << >>
    /\ contexts = << >>

\* context.setData(k, v)
CallSetData ==
    /\ now < MaxCalls
    /\ \E k \in DataKeys, v \in DataValues :
          /\ data' = setData(data, k, v)
          /\ call' = Some(MkCall("setData", k, v, Null))
    /\ now' = now + 1
    /\ UNCHANGED <<runs, contexts>>
    /\ UNCHANGED <<config, steps, metadata, stepOutputs, errors, pc, cur, retryCount,
                   wait, invocations, succeededOnRetry, inflight, thrown, report>>

\* context.getData(k)
CallGetData ==
    /\ now < MaxCalls
    /\ \E k \in DataKeys :
          call' = Some(MkCall("getData", k, "", getData(data, k)))
    /\ now' = now + 1
    /\ UNCHANGED <<runs, contexts>>
    /\ UNCHANGED <<config, steps, data, metadata, stepOutputs, errors, pc, cur,
                   retryCount, wait, invocations, succeededOnRetry, inflight, thrown,
                   report>>

\* context.setStepOutput(name, v)
CallSetStepOutput ==
    /\ now < MaxCalls
    /\ \E name \in OutputNames, v \in DataValues :
          /\ stepOutputs' = setStepOutput(stepOutputs, name, v, now)
          /\ call' = Some(MkCall("setStepOutput", name, v, Null))
    /\ now' = now + 1
    /\ UNCHANGED <<runs, contexts>>
    /\ UNCHANGED <<config, steps, data, metadata, errors, pc, cur, retryCount, wait,
                   invocations, succeededOnRetry, inflight, thrown, report>>

\* context.getStepOutput(name)
CallGetStepOutput ==
    /\ now < MaxCalls
    /\ \E name \in OutputNames :
          call' = Some(MkCall("getStepOutput", name, "", getStepOutput(stepOutputs, name)))
    /\ now' = now + 1
    /\ UNCHANGED <<runs, contexts>>
    /\ UNCHANGED <<config, steps, data, metadata, stepOutputs, errors, pc, cur,
                   retryCount, wait, invocations, succeededOnRetry, inflight, thrown,
                   report>>

\* step.handleError(e, context)
CallHandleError ==
    /\ now < MaxCalls
    /\ \E i \in 1..Len(steps), e \in CallErrors :
          /\ steps' = [steps EXCEPT ![i] = StepAfterError(steps[i], e, now)]
          /\ errors' = ErrorsAfterError(errors, e)
          /\ metadata' = MetadataAfterError(metadata)
          /\ call' = Some(MkCall("handleError", steps[i].name, e, Null))
    /\ now' = now + 1
    /\ UNCHANGED <<runs, contexts>>
    /\ UNCHANGED <<config, data, stepOutputs, pc, cur, retryCount, wait, invocations,
                   succeededOnRetry, inflight, thrown, report>>

NextContext ==
    \/ CallSetData
    \/ CallGetData
    \/ CallSetStepOutput
    \/ CallGetStepOutput
    \/ CallHandleError

SpecContext == InitContext /\ [][NextContext]_vars

\* ------------------------------------------------ classification of errors
\* The keywords classifyError looks for in a message.
Keywords == {"validation", "timeout", "network"}

\* Errors of every class, with every combination of keywords in the message.
ClassifiedErrors ==
    { MkError("ExecutionError", "s1", r, kw, "failed") :
          r \in BOOLEAN, kw \in SUBSET Keywords }
    \cup { MkError(cls, "", FALSE, kw, "failed") :
               cls \in {"Error", "ValidationError"}, kw \in SUBSET Keywords }
    \cup { MkError("WorkflowError", "s1", FALSE, kw, "failed") : kw \in SUBSET Keywords }

\* classifyError(e), as handleError calls it first
CallClassifyError ==
    /\ now < MaxCalls
    /\ \E e \in ClassifiedErrors :
          call' = Some(MkCall("classifyError", e.cls, e, Some(classifyError(e))))
    /\ now' = now + 1
    /\ UNCHANGED <<runs, contexts>>
    /\ UNCHANGED <<config, steps, data, metadata, stepOutputs, errors, pc, cur,
                   retryCount, wait, invocations, succeededOnRetry, inflight, thrown,
                   report>>

NextClassify == CallClassifyError

SpecClassify == InitContext /\ [][NextClassify]_vars

\* ------------------------------------------------------- concurrent requests
\* Each request builds its own orchestrator with its own steps and executes
\* it; the runs interleave at their awaits. The clock stands still.
Orchestrators == {1, 2}

\* errorHandling of a request.
ConcurrentConfigs ==
    [maxRetries : {1},
     retryStrategy : {"exponential"},
     fallbackEnabled : BOOLEAN,
     dependencies : {"predecessor"},
     sourceType : {"mock"}]

\* The errors a step of a request may reject with: one that is not retried
\* and one that is.
ConcurrentErrors ==
    { MkError("Error", "", FALSE, {}, "failed"),
      MkError("Error", "", FALSE, {"network"}, "failed") }

\* A context that shares one object between all orchestrators.
createContextShared(o) == 1

\* createContext(): every orchestrator constructs a context of its own. A
\* context is named by the orchestrator that constructed it.
createContext(o) == o

\* new WorkflowContext(workflowId, 0), after n calls of addStep
NewContext(n) ==
    [data |-> EmptyData, metadata |-> NewMetadata(n), stepOutputs |-> << >>,
     errors |-> << >>]

\* new WorkflowOrchestrator(config), then n calls of addStep with new steps
NewRun(o, cfg, n) ==
    [config |-> cfg,
     steps |-> [i \in 1..n |-> NewStep(StepNames[i])],
     context |-> createContext(o),
     pc |-> "NOT_STARTED", cur |-> 0, retryCount |-> 0, wait |-> Null,
     invocations |-> [i \in 1..n |-> 0],
     thrown |-> Null, report |-> Null]

InitConcurrent ==
    /\ config \in ConcurrentConfigs
    /\ config.fallbackEnabled
    /\ steps = << >>
    /\ data = EmptyData
    /\ metadata = NewMetadata(0)
    /\ stepOutputs = << >>
    /\ errors = << >>
    /\ pc = "NOT_STARTED"
    /\ cur = 0
    /\ retryCount = 0
    /\ wait = Null
    /\ invocations = << >>
    /\ succeededOnRetry = << >>
    /\ inflight = {}
    /\ thrown = Null
    /\ report = Null
    /\ now = 0
    /\ call = Null
    /\ \E cfg \in [Orchestrators -> ConcurrentConfigs],
          n \in [Orchestrators -> {MinSteps - 1, MinSteps}] :
          /\ runs = [o \in Orchestrators |-> NewRun(o, cfg[o], n[o])]
          /\ contexts = [c \in Orchestrators |-> NewContext(n[c])]

\* The context this.context of orchestrator o.
ContextOf(o) == contexts[runs[o].context]

\* Orchestrator o becomes r and its context becomes c.
Commit(o, r, c) ==
    /\ runs' = [runs EXCEPT ![o] = r]
    /\ contexts' = [contexts EXCEPT ![runs[o].context] = c]
    /\ UNCHANGED <<config, steps, data, metadata, stepOutputs, errors, pc, cur,
                   retryCount, wait, invocations, succeededOnRetry, inflight, thrown,
                   report, now, call>>

\* The catch block of execute()
RunAborted(r, e) == [r EXCEPT !.pc = "ABORTED", !.thrown = Some(Rethrown(e))]
ContextEnded(c) == [c EXCEPT !.metadata.endTime = Some(now)]

\* executeStep(step), up to await step.execute(this.context)
RunBegins(r, i) ==
    [r EXCEPT !.cur = i, !.steps[i].status = "RUNNING",
              !.steps[i].startTime = Some(now), !.invocations[i] = @ + 1,
              !.pc = "EXECUTING"]
ContextBegins(c, name) ==
    [c EXCEPT !.stepOutputs = MapSet(@, name, RunningRecord(now))]

\* execute(), up to await this.validateWorkflow()
ConcurrentExecute(o) ==
    /\ runs[o].pc = "NOT_STARTED"
    /\ Commit(o, [runs[o] EXCEPT !.pc = "VALIDATING"],
              [ContextOf(o) EXCEPT !.metadata.startTime = Some(now)])

ConcurrentValidateFails(o) ==
    /\ runs[o].pc = "VALIDATING"
    /\ IsSet(validateWorkflow(Len(runs[o].steps)))
    /\ Commit(o, RunAborted(runs[o], Val(validateWorkflow(Len(runs[o].steps)))),
              ContextEnded(ContextOf(o)))

ConcurrentValidatePasses(o) ==
    /\ runs[o].pc = "VALIDATING"
    /\ ~IsSet(validateWorkflow(Len(runs[o].steps)))
    /\ Commit(o, RunBegins(runs[o], 1),
              ContextBegins(ContextOf(o), runs[o].steps[1].name))

\* step.execute resolves: the try branch of executeStep
ConcurrentStepSucceeds(o) ==
    /\ runs[o].pc = "EXECUTING"
    /\ LET r == runs[o]
           c == ContextOf(o)
           s == r.steps[r.cur]
           result == Results[r.invocations[r.cur]]
           done == [s EXCEPT !.status = "COMPLETED", !.endTime = Some(now),
                             !.output = Some(result),
                             !.duration = now - Val(s.startTime)]
           rec == [RunningRecord(Val(s.startTime)) EXCEPT
                       !.status = "COMPLETED", !.endTime = done.endTime,
                       !.output = Some(result), !.duration = done.duration]
       IN Commit(o, [r EXCEPT !.steps[r.cur] = done, !.pc = "STEP_DONE"],
                 [c EXCEPT
                     !.data = StepWritesData(@, s.name, result),
                     !.stepOutputs =
                         MapSet(StepWritesOutput(@, s.name, result, now), s.name, rec),
                     !.metadata.completedSteps = @ + 1])

\* step.execute rejects with e: the catch branch of executeStep, then
\* ErrorHandler.handleError up to its first await or to its return
ConcurrentStepFails(o) ==
    /\ runs[o].pc = "EXECUTING"
    /\ \E e \in ConcurrentErrors :
        LET r == runs[o]
            c == ContextOf(o)
            s == r.steps[r.cur]
            failed == StepAfterError(s, e, now)
            rec == [RunningRecord(Val(s.startTime)) EXCEPT
                        !.status = "FAILED", !.endTime = failed.endTime,
                        !.error = failed.error,
                        !.duration = now - Val(s.startTime)]
            info == classifyError(e)
            recorded == [c EXCEPT !.errors = ErrorsAfterError(@, e),
                                  !.metadata = MetadataAfterError(@),
                                  !.stepOutputs = MapSet(@, s.name, rec)]
        IN IF shouldRetry(info, r.config)
           THEN Commit(o, [r EXCEPT !.steps[r.cur] = failed, !.retryCount = 0,
                                    !.wait = Some([k |-> 0,
                                                   ms |-> Delay(r.config.retryStrategy, 0)]),
                                    !.pc = "BACKOFF"],
                       recorded)
           ELSE Commit(o, [r EXCEPT !.steps[r.cur] = failed, !.pc = "STEP_DONE"],
                       [recorded EXCEPT !.data = executeFallback(@, info, s.name)])

\* executeRetry: strategy.delay resolves and step.execute is invoked again
ConcurrentBackoffElapses(o) ==
    /\ runs[o].pc = "BACKOFF"
    /\ Commit(o, [runs[o] EXCEPT !.wait = Null, !.invocations[runs[o].cur] = @ + 1,
                                 !.pc = "RETRYING"],
              ContextOf(o))

\* executeRetry: the retried step.execute resolves
ConcurrentRetrySucceeds(o) ==
    /\ runs[o].pc = "RETRYING"
    /\ LET r == runs[o]
           c == ContextOf(o)
           name == r.steps[r.cur].name
           result == Results[r.invocations[r.cur]]
       IN Commit(o, [r EXCEPT !.pc = "STEP_DONE"],
                 [c EXCEPT !.data = StepWritesData(@, name, result),
                           !.stepOutputs = StepWritesOutput(@, name, result, now)])

\* executeRetry: the retried step.execute rejects with e
ConcurrentRetryFails(o) ==
    /\ runs[o].pc = "RETRYING"
    /\ \E e \in ConcurrentErrors :
        LET r == runs[o]
            counted == [r EXCEPT !.retryCount = @ + 1]
        IN IF r.retryCount + 1 >= r.config.maxRetries
           THEN Commit(o, RunAborted(counted, e), ContextEnded(ContextOf(o)))
           ELSE Commit(o, [counted EXCEPT
                              !.wait = Some([k |-> r.retryCount + 1,
                                             ms |-> Delay(r.config.retryStrategy,
                                                          r.retryCount + 1)]),
                              !.pc = "BACKOFF"],
                       ContextOf(o))

\* execute(): the loop resumes after await this.executeStep(step)
ConcurrentLoopAborts(o) ==
    /\ runs[o].pc = "STEP_DONE"
    /\ ShouldAbort(runs[o].steps[runs[o].cur], runs[o].config)
    /\ Commit(o, RunAborted(runs[o],
                            WorkflowError("Workflow failed at step", {},
                                          runs[o].steps[runs[o].cur].name)),
              ContextEnded(ContextOf(o)))

ConcurrentLoopContinues(o) ==
    /\ runs[o].pc = "STEP_DONE"
    /\ ~ShouldAbort(runs[o].steps[runs[o].cur], runs[o].config)
    /\ NextIndex(runs[o].cur) \in 1..Len(runs[o].steps)
    /\ Commit(o, RunBegins(runs[o], NextIndex(runs[o].cur)),
              ContextBegins(ContextOf(o), runs[o].steps[NextIndex(runs[o].cur)].name))

ConcurrentLoopEnds(o) ==
    /\ runs[o].pc = "STEP_DONE"
    /\ ~ShouldAbort(runs[o].steps[runs[o].cur], runs[o].config)
    /\ NextIndex(runs[o].cur) \notin 1..Len(runs[o].steps)
    /\ LET c == ContextEnded(ContextOf(o))
       IN Commit(o, [runs[o] EXCEPT
                        !.pc = "COMPLETED",
                        !.report = Some(generateExecutionReport(c.metadata,
                                                                c.stepOutputs,
                                                                c.errors))],
                 c)

NextConcurrent ==
    \/ \E o \in Orchestrators : ConcurrentExecute(o)
    \/ \E o \in Orchestrators : ConcurrentValidateFails(o)
    \/ \E o \in Orchestrators : ConcurrentValidatePasses(o)
    \/ \E o \in Orchestrators : ConcurrentStepSucceeds(o)
    \/ \E o \in Orchestrators : ConcurrentStepFails(o)
    \/ \E o \in Orchestrators : ConcurrentBackoffElapses(o)
    \/ \E o \in Orchestrators : ConcurrentRetrySucceeds(o)
    \/ \E o \in Orchestrators : ConcurrentRetryFails(o)
    \/ \E o \in Orchestrators : ConcurrentLoopAborts(o)
    \/ \E o \in Orchestrators : ConcurrentLoopContinues(o)
    \/ \E o \in Orchestrators : ConcurrentLoopEnds(o)

SpecConcurrent == InitConcurrent /\ [][NextConcurrent]_vars

\* ------------------------------------------------------------------ claims
StepIndices == 1..Len(steps)

\* The step at index i is being executed or its failure is being handled.
Handling(i) == cur = i /\ pc \in {"EXECUTING", "BACKOFF", "RETRYING", "STEP_DONE"}

\* The steps whose first invocation failed (Step.handleError set their error).
FailedIndices == {i \in StepIndices : IsSet(steps[i].error)}

\* The record of the step at index i in context.stepOutputs, if any.
RecordOf(i) == getStepOutput(stepOutputs, steps[i].name)

\* C1: steps are started in declaration order and never overlap: at most one
\* execute is in flight, and when the execute of a step has been invoked,
\* every earlier step has been invoked, has reached COMPLETED or FAILED, and
\* its execute, retries, backoff waits and fallback have all resolved; this
\* holds whatever dependencies are declared.
C1_SequentialInOrder ==
    /\ Cardinality(inflight) <= 1
    /\ \A j \in StepIndices :
          invocations[j] > 0 =>
             \A i \in 1..(j - 1) :
                /\ invocations[i] > 0
                /\ steps[i].status \in {"COMPLETED", "FAILED"}
                /\ i \notin inflight
                /\ ~Handling(i)

\* C1 witness: the second step is executing after the first one was retried
\* and has failed, although the first step is declared to depend on the second.
C1_Witness ==
    /\ pc = "EXECUTING" /\ cur = 2 /\ inflight = {2}
    /\ invocations[1] >= 2
    /\ steps[1].status = "FAILED"
    /\ 2 \in Dependencies(config.dependencies, 1, Len(steps))

\* C2: with fallbackEnabled = false, once a step is FAILED no report is ever
\* returned, execute() ends by rejecting, no later step's execute is invoked
\* and every later step stays PENDING without a stepOutputs record.
C2_AbortStopsRun ==
    ~config.fallbackEnabled =>
       \A i \in StepIndices :
          steps[i].status = "FAILED" =>
             /\ report = Null
             /\ pc /= "COMPLETED"
             /\ pc = "ABORTED" => IsSet(thrown)
             /\ \A j \in StepIndices :
                   j > i => /\ invocations[j] = 0
                            /\ steps[j].status = "PENDING"
                            /\ RecordOf(j) = Null

\* C2 witness: the run was aborted at the second of three steps.
C2_Witness ==
    /\ ~config.fallbackEnabled
    /\ pc = "ABORTED"
    /\ Len(steps) = 3
    /\ steps[1].status = "COMPLETED"
    /\ steps[2].status = "FAILED"
    /\ steps[3].status = "PENDING"

\* C3: with fallbackEnabled = true, when exactly one step has failed, with a
\* non-retryable classification, the run is not aborted, failedSteps = 1 and
\* context.errors has one entry; when the run has ended every other step is
\* COMPLETED and the record of each later step is COMPLETED with its output.
C3_SingleFailureContinues ==
    \A i \in StepIndices :
       ( /\ config.fallbackEnabled
         /\ FailedIndices = {i}
         /\ ~classifyError(Val(steps[i].error)).retryable )
       => /\ pc /= "ABORTED"
          /\ metadata.failedSteps = 1
          /\ Len(errors) = 1
          /\ pc = "COMPLETED" =>
                \A j \in StepIndices \ {i} :
                   /\ steps[j].status = "COMPLETED"
                   /\ invocations[j] = 1
                   /\ j > i => /\ IsSet(RecordOf(j))
                               /\ Val(RecordOf(j)).status = "COMPLETED"
                               /\ IsSet(Val(RecordOf(j)).output)
                               /\ Val(RecordOf(j)).output = steps[j].output

\* C3 witness: step 2 of 3 failed with a validation error and the run ended.
C3_Witness ==
    /\ config.fallbackEnabled
    /\ pc = "COMPLETED"
    /\ Len(steps) = 3
    /\ FailedIndices = {2}
    /\ classifyError(Val(steps[2].error)).type = "VALIDATION"
    /\ steps[3].status = "COMPLETED"

\* C4: a step that failed on its first invocation and succeeded on an
\* automatic retry ends COMPLETED, and execute() raises no error for it.
C4_RetriedStepCompleted ==
    \A i \in StepIndices :
       succeededOnRetry[i] > 0 =>
          /\ steps[i].status = "COMPLETED"
          /\ IsSet(thrown) => Val(thrown).step /= steps[i].name

\* The retry loop ran out of attempts for the step at index cur.
RetriesExhausted ==
    /\ cur > 0
    /\ config.maxRetries > 0
    /\ retryCount >= config.maxRetries

\* C5: when every retry attempt of a step has failed and fallbackEnabled =
\* true, the failure gets its fallback (a NETWORK failure sets
\* "<step>_fallback" to "cached") and the run is not aborted.
C5_FallbackAfterExhaustedRetries ==
    (config.fallbackEnabled /\ RetriesExhausted) =>
       /\ pc /= "ABORTED"
       /\ classifyError(Val(steps[cur].error)).type = "NETWORK" =>
             getData(data, steps[cur].name \o "_fallback") = Some("cached")

\* C6: with fallbackEnabled = true and at least 3 steps, execute() never
\* throws, whatever fails.
C6_NoThrowWithFallback ==
    (config.fallbackEnabled /\ Len(steps) >= MinSteps) =>
       (pc /= "ABORTED" /\ thrown = Null)

\* C7: with fallbackEnabled = false, the error execute() rejects with because
\* a step failed carries that step's name in its step field.
C7_AbortNamesFailingStep ==
    (~config.fallbackEnabled /\ pc = "ABORTED" /\ cur > 0) =>
       Val(thrown).step = steps[cur].name

\* C8: with fewer than 3 steps, execute() can only reject with a configuration
\* error; no step's execute is invoked, every step stays PENDING, the
\* counters stay 0 and stepOutputs, data and errors stay empty.
C8_ShortPipelineRejected ==
    (Len(steps) < MinSteps) =>
       /\ pc \in {"NOT_STARTED", "VALIDATING", "ABORTED"}
       /\ report = Null
       /\ pc = "ABORTED" =>
             /\ IsSet(thrown)
             /\ Val(thrown).cls = "WorkflowError"
             /\ Val(thrown).step = "WORKFLOW"
             /\ Val(thrown).text \in {"No steps configured for workflow",
                                      "Workflow must have at least 3 steps"}
       /\ \A i \in StepIndices :
             invocations[i] = 0 /\ steps[i].status = "PENDING"
       /\ inflight = {}
       /\ metadata.completedSteps = 0 /\ metadata.failedSteps = 0
       /\ stepOutputs = << >> /\ data = EmptyData /\ errors = << >>

\* C8 witness: execute() has rejected a pipeline of two steps.
C8_Witness ==
    /\ pc = "ABORTED" /\ Len(steps) = 2
    /\ Val(thrown).text = "Workflow must have at least 3 steps"

\* C9: when N >= 3 steps all succeed on their first invocation, execute() does
\* not throw and its report has totalSteps = completedSteps = N, failedSteps
\* = 0, successRate = 100, status COMPLETED, no errors and N step summaries
\* in declaration order, each COMPLETED.
C9_AllSucceedReport ==
    (Len(steps) >= MinSteps /\ FailedIndices = {}) =>
       /\ pc /= "ABORTED"
       /\ pc = "COMPLETED" =>
             LET r == Val(report) IN
             /\ r.summary.totalSteps = Len(steps)
             /\ r.summary.completedSteps = Len(steps)
             /\ r.summary.failedSteps = 0
             /\ r.summary.successRate.num = 100 * r.summary.successRate.den
             /\ r.status = "COMPLETED"
             /\ r.errors = << >>
             /\ Len(r.steps) = Len(steps)
             /\ \A i \in StepIndices :
                   /\ r.steps[i].name = steps[i].name
                   /\ r.steps[i].status = "COMPLETED"

\* C9 witness: a report for three steps that all succeeded.
C9_Witness ==
    /\ pc = "COMPLETED" /\ Len(steps) = 3
    /\ IsSet(report)
    /\ FailedIndices = {}
    /\ \A i \in StepIndices : invocations[i] = 1

\* C10: completedSteps + failedSteps <= totalSteps, and the three counters
\* are non-negative, in every state of a run.
C10_CountersBounded ==
    /\ metadata.completedSteps + metadata.failedSteps <= metadata.totalSteps
    /\ metadata.completedSteps >= 0
    /\ metadata.failedSteps >= 0
    /\ metadata.totalSteps >= 0

\* C10 witness: a finished run in which every step was counted and some failed.
C10_Witness ==
    /\ pc = "COMPLETED"
    /\ metadata.failedSteps >= 2
    /\ metadata.completedSteps >= 1
    /\ metadata.completedSteps + metadata.failedSteps = metadata.totalSteps


FailedInvocations(i) ==
    invocations[i]
      - (IF i \in inflight THEN 1 ELSE 0)
      - (IF steps[i].status = "COMPLETED" \/ succeededOnRetry[i] > 0 THEN 1 ELSE 0)

RECURSIVE SumFailedInvocations(_)
SumFailedInvocations(n) ==
    IF n = 0 THEN 0 ELSE FailedInvocations(n) + SumFailedInvocations(n - 1)

\* The errors of the steps whose first invocation failed, in step order.
ErrorsOfFailedSteps ==
    LET failed == SelectSeq(steps, LAMBDA s : IsSet(s.error))
    IN [i \in 1..Len(failed) |-> Val(failed[i].error)]

\* C12 as claimed: at the end of the run context.errors has one entry for
\* every failed invocation of an execute, failed retry attempts included.
C12_EveryFailedInvocationRecorded ==
    pc \in {"COMPLETED", "ABORTED"} =>
       Len(errors) = SumFailedInvocations(Len(steps))

\* C12 as amended: context.errors holds exactly the errors of the first
\* invocations that failed, one per step, in step order; a failed retry
\* attempt adds no entry, so there are never more entries than failed
\* invocations.
C12_FirstFailuresRecorded ==
    /\ errors = ErrorsOfFailedSteps
    /\ Len(errors) = Cardinality(FailedIndices)
    /\ Len(errors) <= SumFailedInvocations(Len(steps))

\* C12 witness: a finished run with a failed retry attempt that left no entry.
C12_Witness ==
    /\ pc = "COMPLETED"
    /\ Len(errors) = 1
    /\ SumFailedInvocations(Len(steps)) = 2


\* C13: when the first re-invocation of a step succeeds (maxRetries >= 1, a
\* retryable failure), the step's execute has been invoked exactly twice, the
\* handler attempts no further retry, and handleError has not raised: the
\* run goes on to the check of the loop, which alone may still throw.
C13_FirstRetrySucceeds ==
    \A i \in StepIndices :
       succeededOnRetry[i] = 1 =>
          /\ config.maxRetries >= 1
          /\ classifyError(Val(steps[i].error)).retryable
          /\ invocations[i] = 2
          /\ i \notin inflight
          /\ ~(cur = i /\ pc \in {"EXECUTING", "BACKOFF", "RETRYING"})
          /\ (cur = i /\ IsSet(thrown)) =>
                Val(thrown) = WorkflowError("Workflow failed at step", {}, steps[i].name)

\* C13 witness: with maxRetries = 2, the handler has returned after the first
\* retry of the first step succeeded.
C13_Witness ==
    /\ config.maxRetries = 2
    /\ pc = "STEP_DONE" /\ cur = 1
    /\ succeededOnRetry[1] = 1
    /\ invocations[1] = 2
    /\ thrown = Null


\* The step at index cur fails in this transition and its failure is
\* handled by the fallback (no retry).
FallbackTransition ==
    /\ pc = "EXECUTING"
    /\ pc' = "STEP_DONE"
    /\ steps'[cur].status = "FAILED"

\* d2 is d1 with key set to value and nothing else changed.
OnlyKeySet(d1, d2, key, value) ==
    /\ DOMAIN d2 = DOMAIN d1 \cup {key}
    /\ d2[key] = value
    /\ \A k \in DOMAIN d1 \ {key} : d2[k] = d1[k]

\* C14: when the fallback handles a failure of step S, a VALIDATION failure
\* sets data["S_fallback"] to true, a NETWORK failure sets it to "cached",
\* any other failure leaves data as it is; no other key changes, no counter
\* changes except the failedSteps increment of handleError, and no
\* stepOutputs record changes except that of S, which executeStep set FAILED.
C14_FallbackFrame ==
    [][ FallbackTransition =>
          LET name == steps[cur].name
              type == classifyError(Val(steps'[cur].error)).type
          IN /\ type = "VALIDATION" =>
                   OnlyKeySet(data, data', name \o "_fallback", "true")
             /\ type = "NETWORK" =>
                   OnlyKeySet(data, data', name \o "_fallback", "cached")
             /\ type \notin {"VALIDATION", "NETWORK"} => data' = data
             /\ metadata' = [metadata EXCEPT !.failedSteps = @ + 1]
             /\ Len(stepOutputs') = Len(stepOutputs)
             /\ \A j \in 1..Len(stepOutputs) :
                   stepOutputs[j].key /= name => stepOutputs'[j] = stepOutputs[j]
             /\ Val(getStepOutput(stepOutputs', name)).status = "FAILED"
             /\ Val(getStepOutput(stepOutputs', name)).output = Null
      ]_vars

\* C14 witness: the first step got the VALIDATION fallback and the second
\* one the NETWORK fallback.
C14_Witness ==
    /\ pc = "STEP_DONE" /\ cur = 2
    /\ FailedIndices = {1, 2}
    /\ classifyError(Val(steps[1].error)).type = "VALIDATION"
    /\ classifyError(Val(steps[2].error)).type = "NETWORK"
    /\ getData(data, "s1_fallback") = Some("true")
    /\ getData(data, "s2_fallback") = Some("cached")
    /\ DOMAIN data = {"s1_fallback", "s2_fallback"}


\* The step at index cur fails in this transition.
FailureTransition ==
    /\ pc = "EXECUTING"
    /\ steps'[cur].status = "FAILED"

\* C15: for a failure that is not retried (non-retryable classification,
\* HIGH severity, or maxRetries = 0) handleError returns without raising:
\* the step's execute is not invoked again, nothing is thrown and the run is
\* back in the loop of execute().
C15_FallbackNeverRaises ==
    [][ FailureTransition =>
          LET info == classifyError(Val(steps'[cur].error))
          IN (~info.retryable \/ info.severity = "HIGH" \/ config.maxRetries = 0) =>
                /\ pc' = "STEP_DONE"
                /\ thrown' = Null
                /\ invocations' = invocations
                /\ wait' = Null
                /\ inflight' = {}
      ]_vars

\* C15 witness: with maxRetries = 0 a failure with a retryable classification
\* has been handled by the fallback and nothing was thrown.
C15_Witness ==
    /\ config.maxRetries = 0
    /\ pc = "STEP_DONE"
    /\ steps[cur].status = "FAILED"
    /\ classifyError(Val(steps[cur].error)).retryable
    /\ invocations[cur] = 1
    /\ thrown = Null

\* The direct call that a step of SpecContext has just made.
Called(op) == now' /= now /\ IsSet(call') /\ Val(call').op = op

\* The position of the step called name.
StepNamed(name) == CHOOSE i \in 1..Len(steps) : steps[i].name = name

\* C16: one call of step.handleError(e, context) sets the step's error to e,
\* its status to FAILED and its endTime, appends e as the last element of
\* context.errors and raises failedSteps by exactly one; the step's other
\* fields, the other steps, completedSteps, totalSteps, context.data and the
\* stepOutputs records are unchanged.
C16_RecordFailureEffects ==
    [][Called("handleError") =>
        LET i == StepNamed(Val(call').key)
            e == Val(call').value
        IN  /\ steps'[i].error = Some(e)
            /\ steps'[i].status = "FAILED"
            /\ steps'[i].endTime = Some(now)
            /\ steps'[i].name = steps[i].name
            /\ steps'[i].startTime = steps[i].startTime
            /\ steps'[i].output = steps[i].output
            /\ steps'[i].duration = steps[i].duration
            /\ \A j \in 1..Len(steps) : j /= i => steps'[j] = steps[j]
            /\ Len(steps') = Len(steps)
            /\ Len(errors') = Len(errors) + 1
            /\ errors'[Len(errors')] = e
            /\ SubSeq(errors', 1, Len(errors)) = errors
            /\ metadata'.failedSteps = metadata.failedSteps + 1
            /\ metadata'.completedSteps = metadata.completedSteps
            /\ metadata'.totalSteps = metadata.totalSteps
            /\ metadata'.startTime = metadata.startTime
            /\ metadata'.endTime = metadata.endTime
            /\ data' = data
            /\ stepOutputs' = stepOutputs]_vars

\* handleError has been called on s2 after an earlier failure with a different
\* error was recorded, and the context holds data and a step record.
C16_Witness ==
    /\ IsSet(call) /\ Val(call).op = "handleError" /\ Val(call).key = "s2"
    /\ Len(errors) = 2 /\ errors[1] /= errors[2]
    /\ errors[2] = Val(call).value
    /\ steps[2].status = "FAILED" /\ steps[2].error = Some(errors[2])
    /\ metadata.failedSteps = 2
    /\ stepOutputs /= << >>

\* C20: setStepOutput(name, v) on a name that already has a record replaces
\* only that record's output: its status, startTime, endTime, error and
\* duration are unchanged, and so are the records of all other names.
C20_SetStepOutputKeepsRecord ==
    [][(Called("setStepOutput") /\ MapHas(stepOutputs, Val(call').key)) =>
        LET name == Val(call').key
            old  == MapGet(stepOutputs, name)
            new  == MapGet(stepOutputs', name)
        IN  /\ MapHas(stepOutputs', name)
            /\ new.output = Some(Val(call').value)
            /\ new.status = old.status
            /\ new.startTime = old.startTime
            /\ new.endTime = old.endTime
            /\ new.error = old.error
            /\ new.duration = old.duration
            /\ Len(stepOutputs') = Len(stepOutputs)
            /\ \A j \in 1..Len(stepOutputs) :
                  /\ stepOutputs'[j].key = stepOutputs[j].key
                  /\ stepOutputs[j].key /= name => stepOutputs'[j] = stepOutputs[j]]_vars

\* setStepOutput has replaced the output of the FAILED record of s1, which
\* still is FAILED with its error, next to the record of s2.
C20_Witness ==
    /\ IsSet(call) /\ Val(call).op = "setStepOutput" /\ Val(call).key = "s1"
    /\ MapHas(stepOutputs, "s1") /\ MapHas(stepOutputs, "s2")
    /\ MapGet(stepOutputs, "s1").status = "FAILED"
    /\ IsSet(MapGet(stepOutputs, "s1").error)
    /\ MapGet(stepOutputs, "s1").output = Some("v2")
    /\ MapGet(stepOutputs, "s2").output = Some("v1")

\* The waits of the schedule in milliseconds, for retry attempts 0, 1, 2, ...
ExponentialSchedule == <<1000, 2000, 4000, 8000, 16000, 32000>>
LinearSchedule == <<1000, 2000, 3000, 4000, 5000, 6000>>

\* C17: the backoff wait before retry attempt k (0-based) is 2^k seconds for
\* the exponential strategy, (k+1) seconds for the linear strategy and 2 seconds
\* for the fixed strategy whatever k is.
C17_BackoffSchedule ==
    IsSet(wait) =>
        LET k  == Val(wait).k
            ms == Val(wait).ms
        IN  /\ k = retryCount
            /\ config.retryStrategy = "exponential" => ms = ExponentialSchedule[k + 1]
            /\ config.retryStrategy = "linear" => ms = LinearSchedule[k + 1]
            /\ config.retryStrategy = "fixed" => ms = 2000

\* The third retry of an exponential schedule is awaited: 4 seconds.
C17_Witness ==
    /\ pc = "BACKOFF"
    /\ config.retryStrategy = "exponential"
    /\ retryCount = 2
    /\ wait = Some([k |-> 2, ms |-> 4000])

\* C18: execute() fails with a configuration error before any step executes
\* whenever some step's own static configuration is invalid (an unsupported
\* data-source type), whatever the number of steps in the pipeline.
C18_InvalidConfigRejected ==
    (config.sourceType = "invalid-type" /\ pc \notin {"NOT_STARTED", "VALIDATING"}) =>
        /\ pc = "ABORTED"
        /\ IsSet(thrown)
        /\ Val(thrown).cls = "WorkflowError"
        /\ \A i \in 1..Len(steps) : invocations[i] = 0

\* The own steps of orchestrator o that have the given status.
OwnSteps(o, status) ==
    {i \in 1..Len(runs[o].steps) : runs[o].steps[i].status = status}

\* The own steps of orchestrator o that executeStep has started.
OwnStarted(o) ==
    {i \in 1..Len(runs[o].steps) : runs[o].steps[i].status /= "PENDING"}

\* C19: workflows executed concurrently, each on its own orchestrator with its
\* own steps, do not interfere under any interleaving of their awaits: the
\* context, the counters and the report of each run reflect only its own
\* steps, and a run whose own steps all succeed reports COMPLETED.
C19_RunsDoNotInterfere ==
    \A o \in Orchestrators :
        LET r == runs[o]
            c == ContextOf(o)
        IN  /\ \A p \in Orchestrators \ {o} : runs[p].context /= r.context
            /\ c.metadata.totalSteps = Len(r.steps)
            /\ c.metadata.completedSteps = Cardinality(OwnSteps(o, "COMPLETED"))
            /\ c.metadata.failedSteps = Cardinality(OwnSteps(o, "FAILED"))
            /\ Len(c.errors) = Cardinality(OwnSteps(o, "FAILED"))
            /\ \A j \in 1..Len(c.errors) :
                  \E i \in OwnSteps(o, "FAILED") : r.steps[i].error = Some(c.errors[j])
            /\ Len(c.stepOutputs) = Cardinality(OwnStarted(o))
            /\ \A j \in 1..Len(c.stepOutputs) :
                  /\ c.stepOutputs[j].key = r.steps[j].name
                  /\ c.stepOutputs[j].value.status = r.steps[j].status
                  /\ c.stepOutputs[j].value.error = r.steps[j].error
                  /\ c.stepOutputs[j].value.startTime = r.steps[j].startTime
            /\ \A k \in DOMAIN c.data :
                  \E i \in OwnStarted(o) :
                      k \in {r.steps[i].name, r.steps[i].name \o "_fallback"}
            /\ r.pc = "COMPLETED" =>
                  /\ IsSet(r.report)
                  /\ Val(r.report).summary.totalSteps = Len(r.steps)
                  /\ Val(r.report).summary.completedSteps =
                        Cardinality(OwnSteps(o, "COMPLETED"))
                  /\ Val(r.report).summary.failedSteps =
                        Cardinality(OwnSteps(o, "FAILED"))
                  /\ Len(Val(r.report).steps) = Len(r.steps)
                  /\ (Val(r.report).status = "COMPLETED") <=> (OwnSteps(o, "FAILED") = {})
            /\ OwnSteps(o, "COMPLETED") = 1..Len(r.steps) /\ r.steps /= << >> =>
                  /\ r.pc \in {"STEP_DONE", "COMPLETED"}
                  /\ r.pc = "COMPLETED" => Val(r.report).status = "COMPLETED"

\* The first run has reported COMPLETED with all its steps succeeded while
\* the second, with the same step names, is waiting to retry a failed step.
C19_Witness ==
    /\ runs[1].pc = "COMPLETED"
    /\ OwnSteps(1, "COMPLETED") = 1..MinSteps
    /\ Val(runs[1].report).status = "COMPLETED"
    /\ runs[2].pc = "BACKOFF"
    /\ ContextOf(2).metadata.failedSteps = 1
    /\ ContextOf(1).metadata.failedSteps = 0
    /\ runs[2].steps[1].name = runs[1].steps[1].name

\* C21: setStepOutput(name, v) called when no record exists for name creates
\* a record with status COMPLETED, both timestamps set, error null and output
\* v; getStepOutput of a name that has no record returns the absent value
\* without raising, and changes nothing.
C21_AbsentStepOutput ==
    [][ /\ (Called("setStepOutput") /\ ~MapHas(stepOutputs, Val(call').key)) =>
             LET name == Val(call').key
                 new  == MapGet(stepOutputs', name)
             IN  /\ MapHas(stepOutputs', name)
                 /\ new.status = "COMPLETED"
                 /\ new.startTime = Some(now)
                 /\ new.endTime = Some(now)
                 /\ new.error = Null
                 /\ new.output = Some(Val(call').value)
                 /\ Len(stepOutputs') = Len(stepOutputs) + 1
                 /\ stepOutputs'[Len(stepOutputs')].key = name
                 /\ SubSeq(stepOutputs', 1, Len(stepOutputs)) = stepOutputs
        /\ (Called("getStepOutput") /\ ~MapHas(stepOutputs, Val(call').key)) =>
             /\ Val(call').result = Null
             /\ stepOutputs' = stepOutputs
             /\ data' = data /\ errors' = errors /\ metadata' = metadata
      ]_vars

\* getStepOutput("s2") has returned the absent value while the context holds
\* the record setStepOutput created for s1.
C21_Witness ==
    /\ IsSet(call) /\ Val(call).op = "getStepOutput" /\ Val(call).key = "s2"
    /\ Val(call).result = Null
    /\ Len(stepOutputs) = 1 /\ stepOutputs[1].key = "s1"
    /\ stepOutputs[1].value.status = "COMPLETED"
    /\ stepOutputs[1].value.startTime = stepOutputs[1].value.endTime
    /\ IsSet(stepOutputs[1].value.startTime)
    /\ stepOutputs[1].value.error = Null
    /\ stepOutputs[1].value.output = Some("v1")

\* C22: getData(k) returns the value of the most recent setData(k, v) and the
\* absent value when k was never set: a new context has no key, setData(k, v)
\* makes k hold v and leaves every other key as it was, and no other call
\* changes what a key holds; getData returns what the key holds.
C22_LastWriteWins ==
    [][ /\ now = 0 => \A k \in DataKeys : getData(data, k) = Null
        /\ Called("setData") =>
             /\ Val(call').key \in DOMAIN data'
             /\ data'[Val(call').key] = Val(call').value
             /\ \A k \in DataKeys \ {Val(call').key} :
                   /\ k \in DOMAIN data' <=> k \in DOMAIN data
                   /\ k \in DOMAIN data => data'[k] = data[k]
        /\ (now' /= now /\ ~Called("setData")) => data' = data
        /\ Called("getData") =>
             /\ Val(call').key \in DOMAIN data =>
                   Val(call').result = Some(data[Val(call').key])
             /\ Val(call').key \notin DOMAIN data => Val(call').result = Null
      ]_vars

\* getData("k1") has returned the overwriting value "v2" while "k2" was
\* never set.
C22_Witness ==
    /\ IsSet(call) /\ Val(call).op = "getData" /\ Val(call).key = "k1"
    /\ Val(call).result = Some("v2")
    /\ "k2" \notin DOMAIN data
    /\ now >= 3

\* C23: for one failure handled by the ErrorHandler the step's execute is
\* re-invoked at most maxRetries times (at most 1 + maxRetries invocations of
\* a step per run); each re-invocation is preceded by exactly one backoff
\* wait, and the waits use attempt indices k = 0, 1, ..., maxRetries - 1 in
\* increasing order, k being the number of retries that have already failed.
C23_RetryBudget ==
    [][ /\ \A i \in 1..Len(steps') : invocations'[i] <= 1 + config.maxRetries
        /\ IsSet(wait') =>
             /\ pc' = "BACKOFF"
             /\ Val(wait').k \in 0..(config.maxRetries - 1)
             /\ Val(wait').k = invocations'[cur'] - 1
        /\ (IsSet(wait') /\ wait' /= wait) =>
             /\ wait = Null
             /\ pc \in {"EXECUTING", "RETRYING"}
             /\ pc = "RETRYING" => Val(wait').k = retryCount + 1
             /\ pc = "EXECUTING" => Val(wait').k = 0
        /\ (pc' = "RETRYING" /\ pc /= "RETRYING") =>
             /\ pc = "BACKOFF"
             /\ IsSet(wait) /\ wait' = Null
             /\ invocations'[cur] = invocations[cur] + 1
        /\ (cur > 0 /\ cur' = cur /\ invocations'[cur] /= invocations[cur]) =>
             /\ pc = "BACKOFF" /\ IsSet(wait)
             /\ invocations'[cur] = invocations[cur] + 1
      ]_vars

\* With maxRetries = 3 the last allowed re-invocation is in flight, after the
\* waits 0, 1 and 2.
C23_Witness ==
    /\ config.maxRetries = 3
    /\ pc = "RETRYING"
    /\ retryCount = 2
    /\ invocations[cur] = 4
    /\ wait = Null

\* C24: a failure enters the retry loop if and only if its classification is
\* retryable, its severity is not HIGH and maxRetries > 0; in every other case
\* the step's execute is not re-invoked at all and the fallback path runs.
C24_RetryEntry ==
    [][ FailureTransition =>
          LET info == classifyError(Val(steps'[cur].error))
              name == steps[cur].name
              enters == info.retryable /\ info.severity /= "HIGH" /\ config.maxRetries > 0
          IN  /\ enters <=> (pc' = "BACKOFF" /\ IsSet(wait'))
              /\ enters => data' = data
              /\ ~enters =>
                    /\ pc' = "STEP_DONE"
                    /\ wait' = Null
                    /\ invocations' = invocations
                    /\ info.type = "VALIDATION" =>
                          OnlyKeySet(data, data', name \o "_fallback", "true")
                    /\ info.type = "NETWORK" =>
                          OnlyKeySet(data, data', name \o "_fallback", "cached")
                    /\ info.type \notin {"VALIDATION", "NETWORK"} => data' = data
      ]_vars

\* The first step got the fallback for a validation failure without being
\* re-invoked, and the second waits for its first retry after a timeout.
C24_Witness ==
    /\ config.maxRetries > 0
    /\ pc = "BACKOFF" /\ cur = 2
    /\ FailedIndices = {1, 2}
    /\ classifyError(Val(steps[1].error)).type = "VALIDATION"
    /\ invocations[1] = 1
    /\ getData(data, steps[1].name \o "_fallback") = Some("true")
    /\ classifyError(Val(steps[2].error)).type = "TIMEOUT"
    /\ getData(data, steps[2].name \o "_fallback") = Null

\* C25: fallback side effects are applied only when the run is allowed to
\* continue: with fallbackEnabled = false no failed step ever causes a
\* "<step>_fallback" key to be written to context.data.
C25_NoFallbackWhenDisabled ==
    ~config.fallbackEnabled =>
       \A i \in StepIndices : getData(data, steps[i].name \o "_fallback") = Null

\* C26: a retry re-invocation made by the ErrorHandler, whether it succeeds
\* or fails, changes none of the orchestrator's bookkeeping: the step's
\* status, error, endTime, output and duration, completedSteps, failedSteps
\* and context.errors are the same after the re-invocation as before it.
C26_RetryKeepsBookkeeping ==
    [][ (pc = "BACKOFF" \/ pc = "RETRYING") =>
          /\ cur' = cur
          /\ errors' = errors
          /\ Len(steps') = Len(steps)
          /\ \A i \in 1..Len(steps) :
                /\ steps'[i].status = steps[i].status
                /\ steps'[i].error = steps[i].error
                /\ steps'[i].endTime = steps[i].endTime
                /\ steps'[i].output = steps[i].output
                /\ steps'[i].duration = steps[i].duration
          /\ metadata'.completedSteps = metadata.completedSteps
          /\ metadata'.failedSteps = metadata.failedSteps
      ]_vars

\* The only step that failed succeeded on its second retry: it still is
\* FAILED without output, counted as failed, with its one error recorded.
C26_Witness ==
    /\ pc = "STEP_DONE" /\ cur = 1
    /\ succeededOnRetry[1] = 2
    /\ invocations[1] = 3
    /\ steps[1].status = "FAILED" /\ steps[1].output = Null
    /\ metadata.failedSteps = 1 /\ metadata.completedSteps = 0
    /\ Len(errors) = 1

\* The steps that failed and then succeeded on an automatic retry.
RetriedToSuccess == {i \in StepIndices : succeededOnRetry[i] > 0}

\* What C27 says of a state.
RetriedStepsStayFailed ==
    /\ \A i \in RetriedToSuccess :
          /\ IsSet(steps[i].error)
          /\ \E j \in 1..Len(errors) : errors[j] = Val(steps[i].error)
          /\ steps[i].status /= "COMPLETED"
    /\ metadata.failedSteps >= Cardinality(RetriedToSuccess)
    /\ metadata.completedSteps <= Len(steps) - Cardinality(RetriedToSuccess)
    /\ (pc = "COMPLETED" /\ RetriedToSuccess /= {}) =>
          LET r == Val(report) IN
          /\ r.summary.failedSteps >= Cardinality(RetriedToSuccess)
          /\ r.summary.completedSteps <= Len(steps) - Cardinality(RetriedToSuccess)
          /\ r.summary.successRate.num < 100 * r.summary.successRate.den
          /\ r.status = "FAILED"
          /\ \A i \in RetriedToSuccess : r.steps[i].status = "FAILED"

\* C27: if a step fails and then succeeds on an automatic retry, failedSteps
\* stays incremented (it is never decremented), the original error stays in
\* context.errors and completedSteps is not incremented for that step, so the
\* final report counts that step as failed and successRate is below 100.
C27_RetriedStepCountsFailed ==
    [][ /\ metadata'.failedSteps >= metadata.failedSteps
        /\ SubSeq(errors', 1, Len(errors)) = errors
        /\ RetriedStepsStayFailed'
      ]_vars

\* A report of a run whose only failure was repaired by a retry.
C27_Witness ==
    /\ pc = "COMPLETED"
    /\ RetriedToSuccess = {2}
    /\ FailedIndices = {2}
    /\ Val(report).summary.failedSteps = 1
    /\ Val(report).summary.completedSteps = Len(steps) - 1
    /\ Val(report).status = "FAILED"

\* C28: recordFailure (Step.handleError) is invoked at most once per failed
\* attempt and never for a successful attempt: every invocation appends one
\* error and adds one to failedSteps, it happens only when the first
\* invocation of a step rejects, and a step that failed, was retried and
\* succeeded has had it invoked exactly once.
C28_RecordFailureOnce ==
    [][ /\ (errors' /= errors \/ metadata'.failedSteps /= metadata.failedSteps) =>
             /\ pc = "EXECUTING"
             /\ steps[cur].status = "RUNNING" /\ steps'[cur].status = "FAILED"
             /\ Len(errors') = Len(errors) + 1
             /\ metadata'.failedSteps = metadata.failedSteps + 1
        /\ Len(errors') = Cardinality(FailedIndices')
        /\ metadata'.failedSteps = Cardinality(FailedIndices')
        /\ Len(errors') <= SumFailedInvocations(Len(steps))'
        /\ \A i \in 1..Len(steps') :
              steps'[i].status = "COMPLETED" => steps'[i].error = Null
      ]_vars

\* The first step failed, failed its first retry and succeeded on the second:
\* one error is recorded although two invocations failed, and the second step
\* is executing.
C28_Witness ==
    /\ pc = "EXECUTING" /\ cur = 2
    /\ succeededOnRetry[1] = 2
    /\ FailedInvocations(1) = 2
    /\ Len(errors) = 1
    /\ metadata.failedSteps = 1

\* C29: within a run each step's status follows only PENDING -> RUNNING ->
\* COMPLETED or PENDING -> RUNNING -> FAILED: a step is PENDING until the
\* orchestrator starts it, and once its status is COMPLETED or FAILED it
\* never changes again.
C29_StepStatusLifecycle ==
    [][ /\ \A i \in 1..Len(steps') :
              /\ steps'[i].status \in {"PENDING", "RUNNING", "COMPLETED", "FAILED"}
              /\ invocations'[i] = 0 <=> steps'[i].status = "PENDING"
        /\ \A i \in 1..Len(steps) :
              steps'[i].status /= steps[i].status =>
                 \/ (steps[i].status = "PENDING" /\ steps'[i].status = "RUNNING")
                 \/ (steps[i].status = "RUNNING" /\ steps'[i].status = "COMPLETED")
                 \/ (steps[i].status = "RUNNING" /\ steps'[i].status = "FAILED")
      ]_vars

\* One step of each status that a started step can have: the first
\* COMPLETED, the second FAILED after a retry succeeded, the third RUNNING.
C29_Witness ==
    /\ Len(steps) = 3
    /\ steps[1].status = "COMPLETED"
    /\ steps[2].status = "FAILED" /\ succeededOnRetry[2] > 0
    /\ steps[3].status = "RUNNING"

\* The state of the run state machine that execute() is in.
RunState ==
    IF pc \in {"EXECUTING", "BACKOFF", "RETRYING", "STEP_DONE"} THEN "RUNNING" ELSE pc

\* C30: a run moves through NOT_STARTED -> VALIDATING -> RUNNING -> COMPLETED
\* or ABORTED in that order only: no step is marked RUNNING before validation
\* has passed, a run ends in exactly one of COMPLETED (execute returns a
\* report) or ABORTED (execute throws), and after that nothing is pending that
\* could change a step status, a counter or a stepOutputs record.
C30_RunStateMachine ==
    [][ /\ RunState' /= RunState =>
             \/ (RunState = "NOT_STARTED" /\ RunState' = "VALIDATING")
             \/ (RunState = "VALIDATING" /\ RunState' = "RUNNING"
                   /\ validateWorkflow(Len(steps)) = Null)
             \/ (RunState = "VALIDATING" /\ RunState' = "ABORTED")
             \/ (RunState = "RUNNING" /\ RunState' \in {"COMPLETED", "ABORTED"})
        /\ RunState' \in {"NOT_STARTED", "VALIDATING"} =>
             \A i \in 1..Len(steps') :
                steps'[i].status = "PENDING" /\ invocations'[i] = 0
        /\ RunState' = "COMPLETED" <=> IsSet(report')
        /\ RunState' = "ABORTED" <=> IsSet(thrown')
        /\ ~(IsSet(report') /\ IsSet(thrown'))
        /\ RunState \in {"COMPLETED", "ABORTED"} =>
             /\ steps' = steps
             /\ metadata' = metadata
             /\ stepOutputs' = stepOutputs
        /\ RunState' \in {"COMPLETED", "ABORTED"} =>
             /\ inflight' = {} /\ wait' = Null
             /\ IsSet(metadata'.endTime)
      ]_vars

\* execute() has thrown out of the RUNNING state, after the first step
\* completed and the second failed.
C30_Witness ==
    /\ RunState = "ABORTED"
    /\ IsSet(thrown) /\ report = Null
    /\ cur = 2
    /\ steps[1].status = "COMPLETED"
    /\ steps[2].status = "FAILED"
    /\ IsSet(metadata.endTime)

\* C31: error classification follows a fixed precedence: a typed
\* ExecutionError is EXECUTION/MEDIUM with its own retryable flag whatever its
\* message contains; otherwise a message containing "validation" is
\* VALIDATION/HIGH/non-retryable, else one containing "timeout" is
\* TIMEOUT/MEDIUM/retryable, else one containing "network" is
\* NETWORK/MEDIUM/retryable, else UNKNOWN/HIGH/non-retryable, so VALIDATION
\* and UNKNOWN failures are never retried.
C31_ClassificationPrecedence ==
    (IsSet(call) /\ Val(call).op = "classifyError") =>
        LET e    == Val(call).value
            info == Val(Val(call).result)
            typed == e.cls = "ExecutionError"
        IN  /\ typed =>
                  info = [type |-> "EXECUTION", severity |-> "MEDIUM",
                          retryable |-> e.retryable, step |-> e.step]
            /\ (~typed /\ "validation" \in e.kw) =>
                  info = [type |-> "VALIDATION", severity |-> "HIGH",
                          retryable |-> FALSE, step |-> "VALIDATION"]
            /\ (~typed /\ "validation" \notin e.kw /\ "timeout" \in e.kw) =>
                  info = [type |-> "TIMEOUT", severity |-> "MEDIUM",
                          retryable |-> TRUE, step |-> "TIMEOUT"]
            /\ (~typed /\ e.kw = {"network"}) =>
                  info = [type |-> "NETWORK", severity |-> "MEDIUM",
                          retryable |-> TRUE, step |-> "NETWORK"]
            /\ (~typed /\ e.kw = {}) =>
                  info = [type |-> "UNKNOWN", severity |-> "HIGH",
                          retryable |-> FALSE, step |-> "UNKNOWN"]
            /\ info.type \in {"VALIDATION", "UNKNOWN"} =>
                  \A cfg \in DeepConfigs : ~shouldRetry(info, cfg)

\* An error whose message is "network timeout" has been classified TIMEOUT.
C31_Witness ==
    /\ IsSet(call) /\ Val(call).op = "classifyError"
    /\ Val(call).value.cls = "Error"
    /\ Val(call).value.kw = {"timeout", "network"}
    /\ Val(Val(call).result).type = "TIMEOUT"

\* C32: metadata.endTime is set only after the run loop has terminated: it is
\* null in every state in which a step is RUNNING, being retried or still to
\* be started by the loop, and metadata.startTime is set before validation
\* and before any step starts.
C32_EndTimeAfterLoop ==
    /\ pc \in {"NOT_STARTED", "VALIDATING", "EXECUTING", "BACKOFF", "RETRYING",
                "STEP_DONE"} => metadata.endTime = Null
    /\ IsSet(metadata.endTime) =>
          /\ pc \in {"COMPLETED", "ABORTED"}
          /\ inflight = {} /\ wait = Null
          /\ \A i \in StepIndices : steps[i].status /= "RUNNING"
          /\ IsSet(metadata.startTime)
          /\ Val(metadata.startTime) <= Val(metadata.endTime)
    /\ pc = "NOT_STARTED" => metadata.startTime = Null
    /\ pc /= "NOT_STARTED" => IsSet(metadata.startTime)
    /\ \A i \in StepIndices :
          IsSet(steps[i].startTime) =>
             /\ IsSet(metadata.startTime)
             /\ Val(metadata.startTime) < Val(steps[i].startTime)

\* The third step is being retried after two steps ended: startTime is set
\* and endTime still is null.
C32_Witness ==
    /\ pc = "RETRYING" /\ cur = 3
    /\ steps[1].status = "COMPLETED"
    /\ IsSet(steps[2].endTime)
    /\ IsSet(metadata.startTime)
    /\ metadata.endTime = Null

\* C33: context.errors only grows: across every operation of a run no entry
\* is removed, replaced or reordered, so the error list of each state has the
\* error list of every earlier state as a prefix.
C33_ErrorsAppendOnly ==
    [][ /\ Len(errors') >= Len(errors)
        /\ \A j \in 1..Len(errors) : errors'[j] = errors[j]
        /\ Len(errors') <= Len(errors) + 1
      ]_vars

\* Three different errors were recorded one after the other.
C33_Witness ==
    /\ Len(errors) = 3
    /\ errors[1] /= errors[2] /\ errors[2] /= errors[3]
    /\ \A j \in 1..3 : steps[j].error = Some(errors[j])

\* C34: there is no timeout or cancellation at the orchestration level:
\* while an invocation of a step's execute (initial or retry) has not
\* resolved, metadata.endTime is null, nothing is returned or thrown, no
\* later step has been started, and the only thing that can happen is that
\* this invocation resolves; if it never does, the run stays as it is.
C34_NoTimeout ==
    [][ inflight /= {} =>
          /\ pc = "EXECUTING" \/ pc = "RETRYING"
          /\ inflight = {cur}
          /\ metadata.endTime = Null
          /\ report = Null /\ thrown = Null
          /\ \A j \in 1..Len(steps) :
                j > cur => steps[j].status = "PENDING" /\ invocations[j] = 0
          /\ inflight' = {}
          /\ cur' = cur
          /\ invocations' = invocations
      ]_vars

\* The retry of the second of three steps is in flight: the third step is
\* PENDING and the run has neither ended nor reported.
C34_Witness ==
    /\ pc = "RETRYING" /\ inflight = {2}
    /\ Len(steps) = 3
    /\ steps[3].status = "PENDING" /\ invocations[3] = 0
    /\ metadata.endTime = Null /\ report = Null /\ thrown = Null

\* The invocations of execute made so far, over the first n steps.
RECURSIVE SumInvocations(_)
SumInvocations(n) == IF n = 0 THEN 0 ELSE invocations[n] + SumInvocations(n - 1)

\* C35: if every invocation of a step's execute and every backoff wait
\* eventually resolves, a call of execute() eventually terminates, by
\* returning a report or by throwing, after at most (number of steps) x
\* (1 + maxRetries) invocations of execute.
C35_ExecuteTerminates ==
    /\ [](SumInvocations(Len(steps)) <= Len(steps) * (1 + config.maxRetries))
    /\ (pc = "VALIDATING") ~> (pc = "COMPLETED" \/ pc = "ABORTED")
    /\ [](pc = "COMPLETED" => IsSet(report))
    /\ [](pc = "ABORTED" => IsSet(thrown))

\* A run has returned its report after every step used its whole budget of
\* invocations but the last retry of each succeeded.
C35_Witness ==
    /\ pc = "COMPLETED" /\ IsSet(report)
    /\ Len(steps) = 3
    /\ config.maxRetries = 2
    /\ \A i \in StepIndices : invocations[i] = 3

\* C36: whenever execute() returns a report (no abort) for a pipeline with
\* distinct step names, every step has been counted exactly once:
\* completedSteps + failedSteps = totalSteps = number of steps added, and
\* every step has a stepOutputs record whose status is COMPLETED or FAILED,
\* none RUNNING.
C36_EveryStepCountedOnce ==
    (pc = "COMPLETED" /\ \A i, j \in StepIndices : i /= j => steps[i].name /= steps[j].name) =>
        /\ IsSet(report)
        /\ metadata.totalSteps = Len(steps)
        /\ metadata.completedSteps + metadata.failedSteps = metadata.totalSteps
        /\ metadata.completedSteps =
              Cardinality({i \in StepIndices : steps[i].status = "COMPLETED"})
        /\ metadata.failedSteps =
              Cardinality({i \in StepIndices : steps[i].status = "FAILED"})
        /\ Len(stepOutputs) = Len(steps)
        /\ \A i \in StepIndices :
              /\ IsSet(RecordOf(i))
              /\ Val(RecordOf(i)).status \in {"COMPLETED", "FAILED"}
              /\ Val(RecordOf(i)).status = steps[i].status
        /\ Val(report).summary.completedSteps + Val(report).summary.failedSteps
              = Val(report).summary.totalSteps

\* A report for three steps: one completed, one failed and got its fallback,
\* one failed and succeeded on a retry.
C36_Witness ==
    /\ pc = "COMPLETED" /\ Len(steps) = 3
    /\ metadata.completedSteps = 1 /\ metadata.failedSteps = 2
    /\ Cardinality(RetriedToSuccess) = 1
    /\ \A i \in StepIndices : Val(RecordOf(i)).status /= "RUNNING"

\* C37: in every reachable state of a run metadata.failedSteps equals the
\* length of context.errors: the two change only together, inside
\* Step.handleError.
C37_FailedStepsIsErrorCount ==
    /\ metadata.failedSteps = Len(errors)
    /\ metadata.failedSteps = Cardinality(FailedIndices)

\* Two failures have been recorded and the second is waiting for its retry.
C37_Witness ==
    /\ pc = "BACKOFF" /\ cur = 2
    /\ metadata.failedSteps = 2
    /\ Len(errors) = 2

\* What execute() throws when the error e reaches its catch block, as C38
\* states it: a WorkflowError as it is, anything else wrapped with the step
\* field 'WORKFLOW'.
EscapesAs(e, t) ==
    IF e.cls = "WorkflowError"
    THEN t = e
    ELSE /\ t.cls = "WorkflowError"
         /\ t.step = "WORKFLOW"
         /\ t.text = "Unexpected workflow error"
         /\ t.kw = e.kw

\* C38: every error that escapes execute() is a WorkflowError: one raised
\* inside the run (by validation, by the loop's abort, or by a step whose
\* retries are exhausted) is rethrown unchanged, any other last error of an
\* exhausted retry loop is wrapped in a WorkflowError whose step is
\* 'WORKFLOW'; metadata.endTime is set in the step that throws, and nothing
\* is thrown at any other moment.
C38_OnlyWorkflowErrorsEscape ==
    [][ /\ (thrown' /= thrown) <=> (pc /= "ABORTED" /\ pc' = "ABORTED")
        /\ (pc /= "ABORTED" /\ pc' = "ABORTED") =>
              /\ IsSet(thrown')
              /\ Val(thrown').cls = "WorkflowError"
              /\ metadata'.endTime = Some(now)
              /\ report' = Null
              /\ pc = "VALIDATING" =>
                    /\ Val(thrown').step = "WORKFLOW"
                    /\ Val(thrown') = Val(validateWorkflow(Len(steps)))
              /\ pc = "STEP_DONE" =>
                    /\ Val(thrown').step = steps[cur].name
                    /\ Val(thrown').text = "Workflow failed at step"
              /\ pc = "RETRYING" =>
                    /\ retryCount' = config.maxRetries
                    /\ \E e \in StepErrors(steps[cur].name) :
                          EscapesAs(e, Val(thrown'))
              /\ pc \in {"VALIDATING", "STEP_DONE", "RETRYING"} ]_vars

\* The last retry of the second step rejected with a plain Error and
\* execute() threw the wrapper.
C38_Witness ==
    /\ pc = "ABORTED" /\ cur = 2
    /\ config.maxRetries = 2 /\ retryCount = 2
    /\ invocations[2] = 3
    /\ IsSet(thrown)
    /\ Val(thrown).step = "WORKFLOW"
    /\ Val(thrown).text = "Unexpected workflow error"
    /\ IsSet(metadata.endTime)

\* The last retry rejected with a WorkflowError of the step's own, which
\* execute() threw as it was.
C38_WitnessUnchanged ==
    /\ pc = "ABORTED" /\ cur = 1
    /\ retryCount = config.maxRetries /\ retryCount > 0
    /\ IsSet(thrown)
    /\ Val(thrown) = MkError("WorkflowError", steps[1].name, FALSE, {"timeout"}, "failed")

\* execute() has been called a second time; First is what the first call left.
Second == IsSet(call) /\ Val(call).op = "execute"
First == Val(call)
Counted(m) == m.completedSteps + m.failedSteps
Settled == pc = "COMPLETED" \/ pc = "ABORTED"

\* The steps the call in progress has booked so far.
ReachedNow ==
    IF pc = "VALIDATING" THEN 0
    ELSE IF pc = "EXECUTING" THEN cur - 1
    ELSE cur

\* C39 as stated: after any second run of a workflow that passes validation,
\* completedSteps + failedSteps exceeds totalSteps.
C39_SecondRunAlwaysExceedsTotal ==
    (Second /\ Settled /\ Len(steps) >= MinSteps) =>
        Counted(metadata) > metadata.totalSteps

\* C39, amended: execute() does not reset the context. The second call
\* writes only metadata.startTime before it validates; it starts again at the
\* first step, marks each step it reaches RUNNING again (over the COMPLETED
\* or FAILED the first run left) and invokes it again, while completedSteps,
\* failedSteps and context.errors keep accumulating from the first run: each
\* step reached adds one to completedSteps + failedSteps. After a second
\* run the sum exceeds totalSteps whenever either run returned a report
\* (twice totalSteps when both did); it need not when both runs aborted.
C39_SecondRunAccumulates ==
    /\ [](Second =>
            /\ metadata.totalSteps = Len(steps)
            /\ First.metadata.totalSteps = Len(steps)
            /\ metadata.completedSteps >= First.metadata.completedSteps
            /\ metadata.failedSteps >= First.metadata.failedSteps
            /\ metadata.failedSteps = Len(errors)
            /\ Len(errors) >= Len(First.errors)
            /\ SubSeq(errors, 1, Len(First.errors)) = First.errors
            /\ Counted(metadata) = Counted(First.metadata) + ReachedNow
            /\ (Settled /\ (pc = "COMPLETED" \/ First.outcome = "COMPLETED")) =>
                  Counted(metadata) > metadata.totalSteps
            /\ (pc = "COMPLETED" /\ First.outcome = "COMPLETED") =>
                  /\ Counted(metadata) = 2 * metadata.totalSteps
                  /\ \A i \in 1..Len(steps) : invocations[i] >= 2)
    /\ [][ /\ (call' /= call) =>
                /\ Settled /\ pc' = "VALIDATING"
                /\ metadata' = [metadata EXCEPT !.startTime = Some(now)]
                /\ errors' = errors
                /\ steps' = steps
                /\ stepOutputs' = stepOutputs
                /\ data' = data
           /\ (Second /\ pc' = "EXECUTING" /\ cur' /= cur) =>
                /\ cur' = cur + 1
                /\ steps'[cur'].status = "RUNNING"
                /\ MapGet(stepOutputs', steps[cur'].name).status = "RUNNING"
                /\ invocations'[cur'] = invocations[cur'] + 1
                /\ cur' <= Counted(First.metadata) =>
                      /\ steps[cur'].status \in {"COMPLETED", "FAILED"}
                      /\ MapHas(stepOutputs, steps[cur'].name)
                      /\ invocations[cur'] >= 1 ]_vars

\* Both calls returned a report for three steps; one failure of the first
\* run and one of the second are in context.errors, and six steps are booked.
C39_Witness ==
    /\ Second /\ pc = "COMPLETED" /\ First.outcome = "COMPLETED"
    /\ metadata.totalSteps = 3
    /\ Counted(metadata) = 6
    /\ Len(First.errors) = 1 /\ Len(errors) = 2
    /\ \A i \in 1..Len(steps) : invocations[i] >= 2

====
